---- MODULE Spec2Model ----
(***************************************************************************)
(* The labplatform chaincodes (class, lab, instance, submission) as state  *)
(* machines over the world state of a Fabric channel.                      *)
(*                                                                         *)
(* Each chaincode is its own program (its own `package main` and `main`)   *)
(* and owns its own namespace of the world state, so a behaviour is a      *)
(* behaviour of one chaincode: `chaincode` is chosen in Init and never     *)
(* changes, and `state` is that chaincode's key/value namespace.           *)
(*                                                                         *)
(* Strings are sequences of Unicode code points (34 is the double quote,   *)
(* 0 is U+0000), so that key building, JSON selectors and base64 are       *)
(* computed on the characters, as the code computes them.                  *)
(***************************************************************************)
EXTENDS Integers, Sequences, FiniteSets, TLC

\* Largest score a client submits to UpdateSubmissionScore.
MaxScore == 1
\* Number of lab records in the store the paginated queries run over.
NumPageRecs == 5
\* Largest page size a client asks for.
MaxPageSize == 2

VARIABLES
    chaincode,  \* the chaincode this behaviour runs: "class", "lab", "instance", "submission"
    state,      \* the chaincode's world state: key -> stored bytes
    last,       \* the last invocation: handler, arguments, caller, returned error
    storeFails, \* whether the store may fail a call in this behaviour
    handed,     \* history: <<id, A, B>> when owner A once transferred class id to B # A
    pager       \* the client of the paginated queries: bookmark threaded, pages received

vars == <<chaincode, state, last, storeFails, handed, pager>>

----------------------------------------------------------------------------
(* Strings of the source.                                                  *)

lab == <<108, 97, 98>>                                          \* "lab"
instance == <<105, 110, 115, 116, 97, 110, 99, 101>>            \* "instance"
submission == <<115, 117, 98, 109, 105, 115, 115, 105, 111, 110>> \* "submission"
class == <<99, 108, 97, 115, 115>>                              \* "class"
class1 == <<99, 108, 97, 115, 115, 49>>                         \* "class1"
lab1 == <<108, 97, 98, 49>>                                     \* "lab1"
lab2 == <<108, 97, 98, 50>>                                     \* "lab2"
Tom == <<84, 111, 109>>                                         \* "Tom"
Sam == <<83, 97, 109>>                                          \* "Sam"

\* const index = "classID~name"
index == <<99, 108, 97, 115, 115, 73, 68, 126, 110, 97, 109, 101>>
\* const index1 = "labID~name"
index1 == <<108, 97, 98, 73, 68, 126, 110, 97, 109, 101>>
\* const index2 = "classID~name"
index2 == <<99, 108, 97, 115, 115, 73, 68, 126, 110, 97, 109, 101>>
\* const index3 = "owner~name"
index3 == <<111, 119, 110, 101, 114, 126, 110, 97, 109, 101>>

\* A string holding only a double quote: a field value a client may submit.
quoted == <<34>>
\* class1","owner":"Sam  : a query argument that closes the selector's string.
injected == <<99, 108, 97, 115, 115, 49, 34, 44, 34, 111, 119, 110, 101, 114, 34, 58, 34, 83, 97, 109>>

\* No error (Go's nil error) and the kinds of error the handlers return.
OK == "nil"

----------------------------------------------------------------------------
(* Inputs the clients submit.                                              *)

\* The ids of a chaincode's records.
IDs(cc) ==
    CASE cc = "lab" -> {lab1, lab2}
      [] cc = "instance" -> {instance \o <<49>>, instance \o <<50>>}
      [] cc = "submission" -> {submission \o <<49>>, submission \o <<50>>}
      [] OTHER -> {class1, class \o <<50>>}

ClassIDs == {class1, quoted}
LabIDs == {lab1, lab2}
Owners == {Tom, Sam}
\* Identities of submitting clients (the decoded form of GetID()).
Identities == {Tom, Sam}
\* Values of the fields no index and no check reads: the value given at
\* creation ("n0", "c0", ...) and the value an update writes ("n1", "c1", ...).
Names == {<<110, 48>>}
Contents == {<<99, 48>>}
NewScores == 1..MaxScore

----------------------------------------------------------------------------
(* The ledger API the handlers call (ctx.GetStub()).                       *)

\* A nil byte slice: what GetState returns for a key that is not stored.
Nil == <<>>

\* Stored bytes are either a JSON document or raw bytes that are not JSON.
JSONBytes(doc) == [json |-> doc]
IsJSON(bytes) == bytes # Nil /\ "json" \in DOMAIN bytes

\* value := []byte{0x00}
indexValue == [raw |-> <<0>>]

GetState(st, key) == IF key \in DOMAIN st THEN st[key] ELSE Nil

PutState(st, key, value) ==
    [k \in DOMAIN st \cup {key} |-> IF k = key THEN value ELSE st[k]]

DelState(st, key) == [k \in DOMAIN st \ {key} |-> st[k]]

\* U+0000 delimits the parts of a composite key and may not occur in a part.
HasNul(s) == \E i \in 1..Len(s) : s[i] = 0

RECURSIVE JoinAttributes(_)
JoinAttributes(attributes) ==
    IF attributes = <<>> THEN <<>>
    ELSE Head(attributes) \o <<0>> \o JoinAttributes(Tail(attributes))

\* CreateCompositeKey putting the attributes one after the other with no
\* U+0000 between them.
CreateCompositeKeyNoSeparator(objectType, attributes) ==
    IF HasNul(objectType) \/ \E i \in 1..Len(attributes) : HasNul(attributes[i])
    THEN [err |-> "EncodingError", key |-> <<>>]
    ELSE [err |-> OK,
          key |-> <<0>> \o objectType \o <<0>>
                    \o (IF Len(attributes) = 2 THEN attributes[1] \o attributes[2]
                        ELSE JoinAttributes(attributes)) \o <<0>>]

\* stub.CreateCompositeKey(objectType, attributes):
\* "\x00" + objectType + "\x00" + attribute + "\x00" for every attribute.
CreateCompositeKey(objectType, attributes) ==
    IF HasNul(objectType) \/ \E i \in 1..Len(attributes) : HasNul(attributes[i])
    THEN [err |-> "EncodingError", key |-> <<>>]
    ELSE [err |-> OK, key |-> <<0>> \o objectType \o <<0>> \o JoinAttributes(attributes)]

IsCompositeKey(key) == Len(key) > 0 /\ key[1] = 0

\* The keys of the primary records and of the index entries in a store.
Records(st) == {k \in DOMAIN st : ~IsCompositeKey(k)}
IndexEntries(st) == {k \in DOMAIN st : IsCompositeKey(k)}

\* The parts of a composite key: the text between consecutive U+0000.
RECURSIVE SplitParts(_, _)
SplitParts(key, cur) ==
    IF key = <<>> THEN <<>>
    ELSE IF Head(key) = 0 THEN <<cur>> \o SplitParts(Tail(key), <<>>)
    ELSE SplitParts(Tail(key), Append(cur, Head(key)))

IsPrefix(p, s) == Len(p) <= Len(s) /\ SubSeq(s, 1, Len(p)) = p

\* stub.GetStateByPartialCompositeKey(objectType, attributes): the keys of
\* the index entries under the prefix built from the leading attributes.
GetStateByPartialCompositeKey(st, objectType, attributes) ==
    {k \in DOMAIN st : IsPrefix(CreateCompositeKey(objectType, attributes).key, k)}

\* A store call that may fail: GetState with the failure the store reports.
GetStateF(st, key, fails) ==
    IF fails THEN [err |-> "StoreError", bytes |-> Nil]
    ELSE [err |-> OK, bytes |-> GetState(st, key)]

\* The store calls of one invocation are numbered from 1 in the order the
\* handler issues them; `f` is the number of the call that fails, 0 for none.
\* An invocation that returns before it issues call `f` meets no failure.
\* A Delete is recorded with the keys it removed.
Faults(n) == IF storeFails THEN 0..n ELSE {0}

----------------------------------------------------------------------------
(* encoding/json on the record types.                                      *)

\* A field of a JSON document; Go's zero value when the document lacks it.
Field(doc, name) == IF name \in DOMAIN doc THEN doc[name] ELSE <<>>

MarshalClass(c) ==
    JSONBytes([ID |-> c.ID, name |-> c.Name, content |-> c.Content, owner |-> c.Owner])

UnmarshalClass(bytes) ==
    IF ~IsJSON(bytes) THEN [err |-> "ParseError"]
    ELSE LET doc == bytes.json
         IN  [err |-> OK,
              v |-> [ID |-> Field(doc, "ID"), Name |-> Field(doc, "name"),
                     Content |-> Field(doc, "content"), Owner |-> Field(doc, "owner")]]

MarshalLab(l) ==
    JSONBytes([docType |-> l.DocType, ID |-> l.ID, classID |-> l.ClassID,
               name |-> l.Name, content |-> l.Content, image |-> l.Image,
               startTime |-> l.StartTime, endTime |-> l.EndTime, owner |-> l.Owner])

UnmarshalLab(bytes) ==
    IF ~IsJSON(bytes) THEN [err |-> "ParseError"]
    ELSE LET doc == bytes.json
         IN  [err |-> OK,
              v |-> [DocType |-> Field(doc, "docType"), ID |-> Field(doc, "ID"),
                     ClassID |-> Field(doc, "classID"), Name |-> Field(doc, "name"),
                     Content |-> Field(doc, "content"), Image |-> Field(doc, "image"),
                     StartTime |-> Field(doc, "startTime"),
                     EndTime |-> Field(doc, "endTime"), Owner |-> Field(doc, "owner")]]

MarshalInstance(i) ==
    JSONBytes([docType |-> i.DocType, ID |-> i.ID, classID |-> i.ClassID,
               labID |-> i.LabID, config |-> i.Config, owner |-> i.Owner])

UnmarshalInstance(bytes) ==
    IF ~IsJSON(bytes) THEN [err |-> "ParseError"]
    ELSE LET doc == bytes.json
         IN  [err |-> OK,
              v |-> [DocType |-> Field(doc, "docType"), ID |-> Field(doc, "ID"),
                     ClassID |-> Field(doc, "classID"), LabID |-> Field(doc, "labID"),
                     Config |-> Field(doc, "config"), Owner |-> Field(doc, "owner")]]

MarshalSubmission(s) ==
    JSONBytes([docType |-> s.DocType, ID |-> s.ID, classID |-> s.ClassID,
               labID |-> s.LabID, content |-> s.Content, owner |-> s.Owner,
               score |-> s.Score])

UnmarshalSubmission(bytes) ==
    IF ~IsJSON(bytes) THEN [err |-> "ParseError"]
    ELSE LET doc == bytes.json
         IN  [err |-> OK,
              v |-> [DocType |-> Field(doc, "docType"), ID |-> Field(doc, "ID"),
                     ClassID |-> Field(doc, "classID"), LabID |-> Field(doc, "labID"),
                     Content |-> Field(doc, "content"), Owner |-> Field(doc, "owner"),
                     Score |-> IF "score" \in DOMAIN doc THEN doc.score ELSE 0]]

----------------------------------------------------------------------------
(* The client identity (ctx.GetClientIdentity()) and encoding/base64.      *)

B64Alphabet ==
    <<65, 66, 67, 68, 69, 70, 71, 72, 73, 74, 75, 76, 77, 78, 79, 80, 81, 82, 83,
      84, 85, 86, 87, 88, 89, 90, 97, 98, 99, 100, 101, 102, 103, 104, 105, 106,
      107, 108, 109, 110, 111, 112, 113, 114, 115, 116, 117, 118, 119, 120, 121,
      122, 48, 49, 50, 51, 52, 53, 54, 55, 56, 57, 43, 47>>

\* base64.StdEncoding.EncodeToString: 3 bytes to 4 characters, '=' padding.
RECURSIVE Base64Encode(_)
Base64Encode(s) ==
    LET c(v) == B64Alphabet[v + 1]
    IN  IF Len(s) = 0 THEN <<>>
        ELSE IF Len(s) = 1
        THEN <<c(s[1] \div 4), c((s[1] % 4) * 16), 61, 61>>
        ELSE IF Len(s) = 2
        THEN <<c(s[1] \div 4), c((s[1] % 4) * 16 + s[2] \div 16), c((s[2] % 16) * 4), 61>>
        ELSE <<c(s[1] \div 4), c((s[1] % 4) * 16 + s[2] \div 16),
               c((s[2] % 16) * 4 + s[3] \div 64), c(s[3] % 64)>>
             \o Base64Encode(SubSeq(s, 4, Len(s)))

\* The 6-bit value of a base64 character (a byte), -1 when it is none.
B64Values ==
    [ch \in 0..255 |->
        IF \E v \in 1..64 : B64Alphabet[v] = ch
        THEN (CHOOSE v \in 1..64 : B64Alphabet[v] = ch) - 1
        ELSE -1]

\* base64.StdEncoding.DecodeString: the bytes, or an error on malformed input.
RECURSIVE Base64Decode(_)
Base64Decode(t) ==
    IF Len(t) = 0 THEN [err |-> OK, bytes |-> <<>>]
    ELSE IF Len(t) < 4 THEN [err |-> "CorruptInput", bytes |-> <<>>]
    ELSE LET v1 == B64Values[t[1]]
             v2 == B64Values[t[2]]
             v3 == B64Values[t[3]]
             v4 == B64Values[t[4]]
             b1 == v1 * 4 + v2 \div 16
             b2 == (v2 % 16) * 16 + v3 \div 4
             b3 == (v3 % 4) * 64 + v4
             rest == Base64Decode(SubSeq(t, 5, Len(t)))
         IN  IF v1 < 0 \/ v2 < 0 THEN [err |-> "CorruptInput", bytes |-> <<>>]
             ELSE IF t[3] = 61 /\ t[4] = 61 /\ Len(t) = 4 /\ v2 % 16 = 0
             THEN [err |-> OK, bytes |-> <<b1>>]
             ELSE IF v3 >= 0 /\ t[4] = 61 /\ Len(t) = 4 /\ v3 % 4 = 0
             THEN [err |-> OK, bytes |-> <<b1, b2>>]
             ELSE IF v3 < 0 \/ v4 < 0 \/ rest.err # OK
             THEN [err |-> "CorruptInput", bytes |-> <<>>]
             ELSE [err |-> OK, bytes |-> <<b1, b2, b3>> \o rest.bytes]

\* "class.creator" and "true"
classCreator == <<99, 108, 97, 115, 115, 46, 99, 114, 101, 97, 116, 111, 114>>
true == <<116, 114, 117, 101>>

\* The transaction contexts of the submitting clients: an identity and the
\* attributes of its certificate.  GetID() returns the identity base64-encoded.
Contexts ==
    {[id |-> Base64Encode(who), attrs |-> a] :
        who \in Identities, a \in {<<>>, <<<<classCreator, true>>>>}}

\* ctx.GetClientIdentity().AssertAttributeValue(attrName, attrValue)
AssertAttributeValue(ctx, attrName, attrValue) ==
    IF \E i \in 1..Len(ctx.attrs) : ctx.attrs[i] = <<attrName, attrValue>>
    THEN OK ELSE "AttributeMismatch"

\* ctx.GetClientIdentity().GetID()
GetID(ctx) == ctx.id

GetSubmittingClientIdentity(ctx) ==
    LET decodeID == Base64Decode(GetID(ctx))
    IN  IF decodeID.err # OK THEN [err |-> "IdentityError", id |-> <<>>]
        ELSE [err |-> OK, id |-> decodeID.bytes]

\* What a handler returns: the error (OK for nil) and the world state it leaves.
Return(err, st) == [err |-> err, st |-> st]

----------------------------------------------------------------------------
(* chaincode/class/class.go                                                *)

ClassExists(st, id, fails) ==
    LET classJSON == GetStateF(st, id, fails)
    IN  IF classJSON.err # OK THEN [err |-> "StoreError", exists |-> FALSE]
        ELSE [err |-> OK, exists |-> classJSON.bytes # Nil]

ReadClass(st, id, fails) ==
    LET classJSON == GetStateF(st, id, fails)
    IN  IF classJSON.err # OK THEN [err |-> "StoreError"]
        ELSE IF classJSON.bytes = Nil THEN [err |-> "NotFound"]
        ELSE UnmarshalClass(classJSON.bytes)

\* CreateClass storing the owner argument in place of the client identity.
CreateClassTxSubmittedOwner(st, ctx, id, name, content, owner, f) ==
    IF AssertAttributeValue(ctx, classCreator, true) # OK THEN Return("Forbidden", st)
    ELSE IF ClassExists(st, id, FALSE).exists THEN Return("AlreadyExists", st)
    ELSE Return(OK, PutState(st, id, MarshalClass(
                 [ID |-> id, Name |-> name, Content |-> content, Owner |-> owner])))

\* CreateClass making the existence check before the attribute check.
CreateClassTxExistsFirst(st, ctx, id, name, content, owner, f) ==
    LET exists == ClassExists(st, id, f = 1)
    IN  IF exists.err # OK THEN Return(exists.err, st)
        ELSE IF exists.exists THEN Return("AlreadyExists", st)
        ELSE IF AssertAttributeValue(ctx, classCreator, true) # OK THEN Return("Forbidden", st)
        ELSE IF f = 2 THEN Return("StoreError", st)
        ELSE Return(OK, PutState(st, id, MarshalClass(
                 [ID |-> id, Name |-> name, Content |-> content,
                  Owner |-> GetSubmittingClientIdentity(ctx).id])))

\* Store calls: 1 GetState (ClassExists), 2 PutState.
CreateClassTx(st, ctx, id, name, content, owner, f) ==
    IF AssertAttributeValue(ctx, classCreator, true) # OK THEN Return("Forbidden", st)
    ELSE LET exists == ClassExists(st, id, f = 1)
             clientID == GetSubmittingClientIdentity(ctx)
             c == [ID |-> id, Name |-> name, Content |-> content, Owner |-> clientID.id]
         IN  IF exists.err # OK THEN Return(exists.err, st)
             ELSE IF exists.exists THEN Return("AlreadyExists", st)
             ELSE IF clientID.err # OK THEN Return(clientID.err, st)
             ELSE IF f = 2 THEN Return("StoreError", st)
             ELSE Return(OK, PutState(st, id, MarshalClass(c)))

\* Store calls: 1 GetState (ReadClass), 2 PutState.
UpdateClassTx(st, ctx, id, newName, newContent, f) ==
    LET c == ReadClass(st, id, f = 1)
        clientID == GetSubmittingClientIdentity(ctx)
    IN  IF c.err # OK THEN Return(c.err, st)
        ELSE IF clientID.err # OK THEN Return(clientID.err, st)
        ELSE IF clientID.id # c.v.Owner THEN Return("Unauthorized", st)
        ELSE IF f = 2 THEN Return("StoreError", st)
        ELSE Return(OK, PutState(st, id,
                 MarshalClass([c.v EXCEPT !.Name = newName, !.Content = newContent])))

\* DeleteClass without the comparison of the client identity with the Owner.
DeleteClassTxByAnyone(st, ctx, id, f) ==
    LET asset == ReadClass(st, id, FALSE)
    IN  IF asset.err # OK THEN Return(asset.err, st)
        ELSE Return(OK, DelState(st, id))

\* Store calls: 1 GetState (ReadClass), 2 DelState.
DeleteClassTx(st, ctx, id, f) ==
    LET asset == ReadClass(st, id, f = 1)
        clientID == GetSubmittingClientIdentity(ctx)
    IN  IF asset.err # OK THEN Return(asset.err, st)
        ELSE IF clientID.err # OK THEN Return(clientID.err, st)
        ELSE IF clientID.id # asset.v.Owner THEN Return("Unauthorized", st)
        ELSE IF f = 2 THEN Return("StoreError", st)
        ELSE Return(OK, DelState(st, id))

\* TransferClass leaving the Owner as it was.
TransferClassTxKeepsOwner(st, ctx, id, newOwner, f) ==
    LET c == ReadClass(st, id, FALSE)
    IN  IF c.err # OK THEN Return(c.err, st)
        ELSE IF GetSubmittingClientIdentity(ctx).id # c.v.Owner THEN Return("Unauthorized", st)
        ELSE Return(OK, PutState(st, id, MarshalClass(c.v)))

\* Store calls: 1 GetState (ReadClass), 2 PutState.
TransferClassTx(st, ctx, id, newOwner, f) ==
    LET c == ReadClass(st, id, f = 1)
        clientID == GetSubmittingClientIdentity(ctx)
    IN  IF c.err # OK THEN Return(c.err, st)
        ELSE IF clientID.err # OK THEN Return(clientID.err, st)
        ELSE IF clientID.id # c.v.Owner THEN Return("Unauthorized", st)
        ELSE IF f = 2 THEN Return("StoreError", st)
        ELSE Return(OK, PutState(st, id, MarshalClass([c.v EXCEPT !.Owner = newOwner])))

----------------------------------------------------------------------------
(* chaincode/lab/lab.go: LabContract                                       *)

\* LabExists answering labBytes == nil.
LabExistsInverted(st, labID, fails) ==
    LET labBytes == GetStateF(st, labID, fails)
    IN  IF labBytes.err # OK THEN [err |-> "StoreError", exists |-> FALSE]
        ELSE [err |-> OK, exists |-> labBytes.bytes = Nil]

LabExists(st, labID, fails) ==
    LET labBytes == GetStateF(st, labID, fails)
    IN  IF labBytes.err # OK THEN [err |-> "StoreError", exists |-> FALSE]
        ELSE [err |-> OK, exists |-> labBytes.bytes # Nil]

ReadLab(st, labID, fails) ==
    LET labBytes == GetStateF(st, labID, fails)
    IN  IF labBytes.err # OK THEN [err |-> "StoreError"]
        ELSE IF labBytes.bytes = Nil THEN [err |-> "NotFound"]
        ELSE UnmarshalLab(labBytes.bytes)

\* CreateLab without the existence check: a second Create overwrites.
CreateLabTxOverwrite(st, labID, classID, name, content, image, startTime, endTime, owner, f) ==
    LET l == [DocType |-> lab, ID |-> labID, ClassID |-> classID, Name |-> name,
              Content |-> content, Image |-> image, StartTime |-> startTime,
              EndTime |-> endTime, Owner |-> owner]
    IN  Return(OK, PutState(PutState(st, labID, MarshalLab(l)),
                            CreateCompositeKey(index, <<l.ClassID, l.ID>>).key, indexValue))

\* CreateLab writing the index entry before the record.
CreateLabTxIndexFirst(st, labID, classID, name, content, image, startTime, endTime, owner, f) ==
    LET exists == LabExists(st, labID, f = 1)
        l == [DocType |-> lab, ID |-> labID, ClassID |-> classID, Name |-> name,
              Content |-> content, Image |-> image, StartTime |-> startTime,
              EndTime |-> endTime, Owner |-> owner]
        labNameIndexKey == CreateCompositeKey(index, <<l.ClassID, l.ID>>)
        st1 == PutState(st, labNameIndexKey.key, indexValue)
    IN  IF exists.err # OK THEN Return(exists.err, st)
        ELSE IF exists.exists THEN Return("AlreadyExists", st)
        ELSE IF labNameIndexKey.err # OK THEN Return(labNameIndexKey.err, st)
        ELSE IF f = 2 THEN Return("StoreError", st)
        ELSE IF f = 3 THEN Return("StoreError", st1)
        ELSE Return(OK, PutState(st1, labID, MarshalLab(l)))

\* Store calls: 1 GetState (LabExists), 2 PutState of the record, 3 PutState
\* of the index entry.
CreateLabTx(st, labID, classID, name, content, image, startTime, endTime, owner, f) ==
    LET exists == LabExists(st, labID, f = 1)
        l == [DocType |-> lab, ID |-> labID, ClassID |-> classID, Name |-> name,
              Content |-> content, Image |-> image, StartTime |-> startTime,
              EndTime |-> endTime, Owner |-> owner]
        st1 == PutState(st, labID, MarshalLab(l))
        labNameIndexKey == CreateCompositeKey(index, <<l.ClassID, l.ID>>)
    IN  IF exists.err # OK THEN Return(exists.err, st)
        ELSE IF exists.exists THEN Return("AlreadyExists", st)
        ELSE IF f = 2 THEN Return("StoreError", st)
        ELSE IF labNameIndexKey.err # OK THEN Return(labNameIndexKey.err, st1)
        ELSE IF f = 3 THEN Return("StoreError", st1)
        ELSE Return(OK, PutState(st1, labNameIndexKey.key, indexValue))

\* DeleteLab removing the record and leaving its index entry.
DeleteLabTxKeepsIndex(st, labID, clientID, f) ==
    LET l == ReadLab(st, labID, FALSE)
    IN  IF l.err # OK THEN Return(l.err, st)
        ELSE IF clientID # l.v.Owner THEN Return("Unauthorized", st)
        ELSE Return(OK, DelState(st, labID))

\* Store calls: 1 GetState (ReadLab), 2 DelState of the record, 3 DelState of
\* the index entry.
DeleteLabTx(st, labID, clientID, f) ==
    LET l == ReadLab(st, labID, f = 1)
        st1 == DelState(st, labID)
        labNameIndexKey == CreateCompositeKey(index, <<l.v.ClassID, l.v.ID>>)
    IN  IF l.err # OK THEN Return(l.err, st)
        ELSE IF clientID # l.v.Owner THEN Return("Unauthorized", st)
        ELSE IF f = 2 THEN Return("StoreError", st)
        ELSE IF labNameIndexKey.err # OK THEN Return(labNameIndexKey.err, st1)
        ELSE IF f = 3 THEN Return("StoreError", st1)
        ELSE Return(OK, DelState(st1, labNameIndexKey.key))

\* Store calls: 1 GetState (ReadLab), 2 PutState.
UpdateLabContentTx(st, labID, newContent, clientID, f) ==
    LET l == ReadLab(st, labID, f = 1)
    IN  IF l.err # OK THEN Return(l.err, st)
        ELSE IF clientID # l.v.Owner THEN Return("Unauthorized", st)
        ELSE IF f = 2 THEN Return("StoreError", st)
        ELSE Return(OK, PutState(st, labID, MarshalLab([l.v EXCEPT !.Content = newContent])))

\* Store calls: 1 GetState (ReadLab), 2 PutState.
UpdateLabImageTx(st, labID, newImage, clientID, f) ==
    LET l == ReadLab(st, labID, f = 1)
    IN  IF l.err # OK THEN Return(l.err, st)
        ELSE IF clientID # l.v.Owner THEN Return("Unauthorized", st)
        ELSE IF f = 2 THEN Return("StoreError", st)
        ELSE Return(OK, PutState(st, labID, MarshalLab([l.v EXCEPT !.Image = newImage])))

\* UpdateLabEndtime writing the record back with its StartTime cleared.
UpdateLabEndtimeTxClearsStart(st, labID, newTime, clientID, f) ==
    LET l == ReadLab(st, labID, f = 1)
    IN  IF l.err # OK THEN Return(l.err, st)
        ELSE IF clientID # l.v.Owner THEN Return("Unauthorized", st)
        ELSE Return(OK, PutState(st, labID, MarshalLab([l.v EXCEPT !.EndTime = newTime,
                                                                  !.StartTime = <<>>])))

\* Store calls: 1 GetState (ReadLab), 2 PutState.
UpdateLabEndtimeTx(st, labID, newTime, clientID, f) ==
    LET l == ReadLab(st, labID, f = 1)
    IN  IF l.err # OK THEN Return(l.err, st)
        ELSE IF clientID # l.v.Owner THEN Return("Unauthorized", st)
        ELSE IF f = 2 THEN Return("StoreError", st)
        ELSE Return(OK, PutState(st, labID, MarshalLab([l.v EXCEPT !.EndTime = newTime])))

\* UpdateLab writing a record of its own under an id it does not find.
UpdateLabTxUpsert(st, labID, newImage, newName, newContent, newStartTime, newEndTime, clientID, f) ==
    LET l == ReadLab(st, labID, FALSE)
        fresh == [DocType |-> lab, ID |-> labID, ClassID |-> <<>>, Name |-> newName,
                  Content |-> newContent, Image |-> newImage, StartTime |-> newStartTime,
                  EndTime |-> newEndTime, Owner |-> clientID]
    IN  IF l.err = "NotFound" THEN Return(OK, PutState(st, labID, MarshalLab(fresh)))
        ELSE IF l.err # OK THEN Return(l.err, st)
        ELSE IF clientID # l.v.Owner THEN Return("Unauthorized", st)
        ELSE Return(OK, PutState(st, labID, MarshalLab([l.v EXCEPT !.Image = newImage, !.Name = newName,
                        !.Content = newContent, !.StartTime = newStartTime,
                        !.EndTime = newEndTime])))

\* Store calls: 1 GetState (ReadLab), 2 PutState.
UpdateLabTx(st, labID, newImage, newName, newContent, newStartTime, newEndTime, clientID, f) ==
    LET l == ReadLab(st, labID, f = 1)
    IN  IF l.err # OK THEN Return(l.err, st)
        ELSE IF clientID # l.v.Owner THEN Return("Unauthorized", st)
        ELSE IF f = 2 THEN Return("StoreError", st)
        ELSE Return(OK, PutState(st, labID, MarshalLab([l.v EXCEPT !.Image = newImage, !.Name = newName,
                        !.Content = newContent, !.StartTime = newStartTime,
                        !.EndTime = newEndTime])))

----------------------------------------------------------------------------
(* chaincode/lab/lab.go: InstanceContract                                  *)

\* InstanceExists answering a failed GetState as "not there".
InstanceExistsSwallowsError(st, instanceID, fails) ==
    LET instanceBytes == GetStateF(st, instanceID, fails)
    IN  [err |-> OK, exists |-> instanceBytes.bytes # Nil]

InstanceExists(st, instanceID, fails) ==
    LET instanceBytes == GetStateF(st, instanceID, fails)
    IN  IF instanceBytes.err # OK THEN [err |-> "StoreError", exists |-> FALSE]
        ELSE [err |-> OK, exists |-> instanceBytes.bytes # Nil]

ReadInstance(st, instanceID, fails) ==
    LET instanceBytes == GetStateF(st, instanceID, fails)
    IN  IF instanceBytes.err # OK THEN [err |-> "StoreError"]
        ELSE IF instanceBytes.bytes = Nil THEN [err |-> "NotFound"]
        ELSE UnmarshalInstance(instanceBytes.bytes)

\* CreateInstance writing the record and only the labID~name index entry.
CreateInstanceTxOneIndex(st, instanceID, labID, classID, config, owner, f) ==
    LET i == [DocType |-> instance, ID |-> instanceID, ClassID |-> classID,
              LabID |-> labID, Config |-> config, Owner |-> owner]
    IN  IF InstanceExists(st, instanceID, FALSE).exists THEN Return("AlreadyExists", st)
        ELSE Return(OK, PutState(PutState(st, instanceID, MarshalInstance(i)),
                        CreateCompositeKey(index1, <<i.LabID, i.ID>>).key, indexValue))

\* CreateInstance that, on an existing id, answers "already exists" after
\* adding the index entries of the values it was given.
CreateInstanceTxSupplements(st, instanceID, labID, classID, config, owner, f) ==
    LET i == [DocType |-> instance, ID |-> instanceID, ClassID |-> classID,
              LabID |-> labID, Config |-> config, Owner |-> owner]
        st2 == PutState(st, CreateCompositeKey(index1, <<i.LabID, i.ID>>).key, indexValue)
        st3 == PutState(st2, CreateCompositeKey(index2, <<i.ClassID, i.ID>>).key, indexValue)
        st4 == PutState(st3, CreateCompositeKey(index3, <<i.Owner, i.ID>>).key, indexValue)
    IN  IF InstanceExists(st, instanceID, FALSE).exists THEN Return("AlreadyExists", st4)
        ELSE Return(OK, PutState(st4, instanceID, MarshalInstance(i)))

\* Store calls: 1 GetState (InstanceExists), 2 PutState of the record, 3, 4, 5
\* PutState of the index entries.  A failure of call 4 returns nil.
CreateInstanceTx(st, instanceID, labID, classID, config, owner, f) ==
    LET exists == InstanceExists(st, instanceID, f = 1)
        i == [DocType |-> instance, ID |-> instanceID, ClassID |-> classID,
              LabID |-> labID, Config |-> config, Owner |-> owner]
        st1 == PutState(st, instanceID, MarshalInstance(i))
        key1 == CreateCompositeKey(index1, <<i.LabID, i.ID>>)
        st2 == PutState(st1, key1.key, indexValue)
        key2 == CreateCompositeKey(index2, <<i.ClassID, i.ID>>)
        st3 == PutState(st2, key2.key, indexValue)
        key3 == CreateCompositeKey(index3, <<i.Owner, i.ID>>)
    IN  IF exists.err # OK THEN Return(exists.err, st)
        ELSE IF exists.exists THEN Return("AlreadyExists", st)
        ELSE IF f = 2 THEN Return("StoreError", st)
        ELSE IF key1.err # OK THEN Return(key1.err, st1)
        ELSE IF f = 3 THEN Return("StoreError", st1)
        ELSE IF key2.err # OK THEN Return(key2.err, st2)
        ELSE IF f = 4 THEN Return(OK, st2)
        ELSE IF key3.err # OK THEN Return(key3.err, st3)
        ELSE IF f = 5 THEN Return("StoreError", st3)
        ELSE Return(OK, PutState(st3, key3.key, indexValue))

\* DeleteInstance going on to the remaining index entries after a DelState
\* has failed, and returning the failure at the end.
DeleteInstanceTxContinues(st, instanceID, clientID, f) ==
    LET i == ReadInstance(st, instanceID, f = 1)
        st1 == IF f = 2 THEN st ELSE DelState(st, instanceID)
        key1 == CreateCompositeKey(index1, <<i.v.LabID, i.v.ID>>)
        st2 == IF f = 3 THEN st1 ELSE DelState(st1, key1.key)
        key2 == CreateCompositeKey(index2, <<i.v.ClassID, i.v.ID>>)
        st3 == IF f = 4 THEN st2 ELSE DelState(st2, key2.key)
        key3 == CreateCompositeKey(index3, <<i.v.Owner, i.v.ID>>)
        st4 == IF f = 5 THEN st3 ELSE DelState(st3, key3.key)
    IN  IF i.err # OK THEN Return(i.err, st)
        ELSE IF clientID # i.v.Owner THEN Return("Unauthorized", st)
        ELSE IF key1.err # OK THEN Return(key1.err, st1)
        ELSE IF key2.err # OK THEN Return(key2.err, st2)
        ELSE IF key3.err # OK THEN Return(key3.err, st3)
        ELSE Return(IF f = 0 THEN OK ELSE "StoreError", st4)

\* DeleteInstance giving up at an index entry that is not in the store.
DeleteInstanceTxMissingIsError(st, instanceID, clientID, f) ==
    LET i == ReadInstance(st, instanceID, FALSE)
        st1 == DelState(st, instanceID)
        key1 == CreateCompositeKey(index1, <<i.v.LabID, i.v.ID>>)
        st2 == DelState(st1, key1.key)
        key2 == CreateCompositeKey(index2, <<i.v.ClassID, i.v.ID>>)
        st3 == DelState(st2, key2.key)
        key3 == CreateCompositeKey(index3, <<i.v.Owner, i.v.ID>>)
    IN  IF i.err # OK THEN Return(i.err, st)
        ELSE IF clientID # i.v.Owner THEN Return("Unauthorized", st)
        ELSE IF key1.err # OK THEN Return(key1.err, st1)
        ELSE IF key1.key \notin DOMAIN st THEN Return("NotFound", st1)
        ELSE IF key2.err # OK THEN Return(key2.err, st2)
        ELSE IF key2.key \notin DOMAIN st THEN Return("NotFound", st2)
        ELSE IF key3.err # OK THEN Return(key3.err, st3)
        ELSE IF key3.key \notin DOMAIN st THEN Return("NotFound", st3)
        ELSE Return(OK, DelState(st3, key3.key))

\* Store calls: 1 GetState (ReadInstance), 2 DelState of the record, 3, 4, 5
\* DelState of the index entries.
DeleteInstanceTx(st, instanceID, clientID, f) ==
    LET i == ReadInstance(st, instanceID, f = 1)
        st1 == DelState(st, instanceID)
        key1 == CreateCompositeKey(index1, <<i.v.LabID, i.v.ID>>)
        st2 == DelState(st1, key1.key)
        key2 == CreateCompositeKey(index2, <<i.v.ClassID, i.v.ID>>)
        st3 == DelState(st2, key2.key)
        key3 == CreateCompositeKey(index3, <<i.v.Owner, i.v.ID>>)
    IN  IF i.err # OK THEN Return(i.err, st)
        ELSE IF clientID # i.v.Owner THEN Return("Unauthorized", st)
        ELSE IF f = 2 THEN Return("StoreError", st)
        ELSE IF key1.err # OK THEN Return(key1.err, st1)
        ELSE IF f = 3 THEN Return("StoreError", st1)
        ELSE IF key2.err # OK THEN Return(key2.err, st2)
        ELSE IF f = 4 THEN Return("StoreError", st2)
        ELSE IF key3.err # OK THEN Return(key3.err, st3)
        ELSE IF f = 5 THEN Return("StoreError", st3)
        ELSE Return(OK, DelState(st3, key3.key))

----------------------------------------------------------------------------
(* chaincode/lab/lab.go: SubmissionContract                                *)

SubmissionExists(st, submissionID, fails) ==
    LET submissionBytes == GetStateF(st, submissionID, fails)
    IN  IF submissionBytes.err # OK THEN [err |-> "StoreError", exists |-> FALSE]
        ELSE [err |-> OK, exists |-> submissionBytes.bytes # Nil]

ReadSubmission(st, submissionID, fails) ==
    LET submissionBytes == GetStateF(st, submissionID, fails)
    IN  IF submissionBytes.err # OK THEN [err |-> "StoreError"]
        ELSE IF submissionBytes.bytes = Nil THEN [err |-> "NotFound"]
        ELSE UnmarshalSubmission(submissionBytes.bytes)

\* CreateSubmission building its index keys from the field value alone,
\* without the ID as the final segment.
CreateSubmissionTxKeyWithoutID(st, submissionID, labID, classID, content, owner, f) ==
    LET s == [DocType |-> submission, ID |-> submissionID, ClassID |-> classID,
              LabID |-> labID, Content |-> content, Owner |-> owner, Score |-> 0]
        st1 == PutState(st, submissionID, MarshalSubmission(s))
        st2 == PutState(st1, CreateCompositeKey(index1, <<s.LabID>>).key, indexValue)
        st3 == PutState(st2, CreateCompositeKey(index2, <<s.ClassID>>).key, indexValue)
    IN  IF SubmissionExists(st, submissionID, FALSE).exists THEN Return("AlreadyExists", st)
        ELSE Return(OK, PutState(st3, CreateCompositeKey(index3, <<s.Owner>>).key,
                                 indexValue))

\* Store calls: 1 GetState (SubmissionExists), 2 PutState of the record, 3, 4,
\* 5 PutState of the index entries.  A failure of call 4 returns nil.
CreateSubmissionTx(st, submissionID, labID, classID, content, owner, f) ==
    LET exists == SubmissionExists(st, submissionID, f = 1)
        s == [DocType |-> submission, ID |-> submissionID, ClassID |-> classID,
              LabID |-> labID, Content |-> content, Owner |-> owner, Score |-> 0]
        st1 == PutState(st, submissionID, MarshalSubmission(s))
        key1 == CreateCompositeKey(index1, <<s.LabID, s.ID>>)
        st2 == PutState(st1, key1.key, indexValue)
        key2 == CreateCompositeKey(index2, <<s.ClassID, s.ID>>)
        st3 == PutState(st2, key2.key, indexValue)
        key3 == CreateCompositeKey(index3, <<s.Owner, s.ID>>)
    IN  IF exists.err # OK THEN Return(exists.err, st)
        ELSE IF exists.exists THEN Return("AlreadyExists", st)
        ELSE IF f = 2 THEN Return("StoreError", st)
        ELSE IF key1.err # OK THEN Return(key1.err, st1)
        ELSE IF f = 3 THEN Return("StoreError", st1)
        ELSE IF key2.err # OK THEN Return(key2.err, st2)
        ELSE IF f = 4 THEN Return(OK, st2)
        ELSE IF key3.err # OK THEN Return(key3.err, st3)
        ELSE IF f = 5 THEN Return("StoreError", st3)
        ELSE Return(OK, PutState(st3, key3.key, indexValue))

\* DeleteSubmission leaving the owner~name entry in the store.
DeleteSubmissionTxKeepsOwnerEntry(st, submissionID, f) ==
    LET s == ReadSubmission(st, submissionID, FALSE)
    IN  IF s.err # OK THEN Return(s.err, st)
        ELSE Return(OK, DelState(DelState(DelState(st, submissionID),
                            CreateCompositeKey(index1, <<s.v.LabID, s.v.ID>>).key),
                            CreateCompositeKey(index2, <<s.v.ClassID, s.v.ID>>).key))

\* Store calls: 1 GetState (ReadSubmission), 2 DelState of the record, 3, 4, 5
\* DelState of the index entries.  The handler takes no client identity.
DeleteSubmissionTx(st, submissionID, f) ==
    LET s == ReadSubmission(st, submissionID, f = 1)
        st1 == DelState(st, submissionID)
        key1 == CreateCompositeKey(index1, <<s.v.LabID, s.v.ID>>)
        st2 == DelState(st1, key1.key)
        key2 == CreateCompositeKey(index2, <<s.v.ClassID, s.v.ID>>)
        st3 == DelState(st2, key2.key)
        key3 == CreateCompositeKey(index3, <<s.v.Owner, s.v.ID>>)
    IN  IF s.err # OK THEN Return(s.err, st)
        ELSE IF f = 2 THEN Return("StoreError", st)
        ELSE IF key1.err # OK THEN Return(key1.err, st1)
        ELSE IF f = 3 THEN Return("StoreError", st1)
        ELSE IF key2.err # OK THEN Return(key2.err, st2)
        ELSE IF f = 4 THEN Return("StoreError", st2)
        ELSE IF key3.err # OK THEN Return(key3.err, st3)
        ELSE IF f = 5 THEN Return("StoreError", st3)
        ELSE Return(OK, DelState(st3, key3.key))

\* UpdateSubmissionScore writing a record for an id that has none.
UpdateSubmissionScoreTxUpsert(st, submissionID, newScore, f) ==
    LET s == ReadSubmission(st, submissionID, FALSE)
    IN  Return(OK, PutState(st, submissionID, MarshalSubmission(
                 IF s.err = OK THEN [s.v EXCEPT !.Score = newScore]
                 ELSE [DocType |-> submission, ID |-> submissionID, ClassID |-> <<>>,
                       LabID |-> <<>>, Content |-> <<>>, Owner |-> <<>>,
                       Score |-> newScore])))

\* Store calls: 1 GetState (ReadSubmission), 2 PutState.  The handler takes no
\* client identity.
UpdateSubmissionScoreTx(st, submissionID, newScore, f) ==
    LET s == ReadSubmission(st, submissionID, f = 1)
    IN  IF s.err # OK THEN Return(s.err, st)
        ELSE IF f = 2 THEN Return("StoreError", st)
        ELSE Return(OK, PutState(st, submissionID,
                 MarshalSubmission([s.v EXCEPT !.Score = newScore])))

----------------------------------------------------------------------------
(* The rich query of the state database (stub.GetQueryResult): the query   *)
(* string is JSON text, {"selector":{"field":"value",...}}.                 *)

\* The string-valued fields of the stored documents, by their JSON names.
JSONNames ==
    (<<100, 111, 99, 84, 121, 112, 101>> :> "docType") @@
    (<<73, 68>> :> "ID") @@
    (<<99, 108, 97, 115, 115, 73, 68>> :> "classID") @@
    (<<108, 97, 98, 73, 68>> :> "labID") @@
    (<<110, 97, 109, 101>> :> "name") @@
    (<<99, 111, 110, 116, 101, 110, 116>> :> "content") @@
    (<<105, 109, 97, 103, 101>> :> "image") @@
    (<<115, 116, 97, 114, 116, 84, 105, 109, 101>> :> "startTime") @@
    (<<101, 110, 100, 84, 105, 109, 101>> :> "endTime") @@
    (<<111, 119, 110, 101, 114>> :> "owner") @@
    (<<99, 111, 110, 102, 105, 103>> :> "config")

\* A JSON string starting after its opening quote at t[i]: its characters up
\* to the closing quote (34); a backslash (92) escapes a quote or backslash.
RECURSIVE ScanString(_, _, _)
ScanString(t, i, acc) ==
    IF i > Len(t) THEN [ok |-> FALSE]
    ELSE IF t[i] = 34 THEN [ok |-> TRUE, str |-> acc, next |-> i + 1]
    ELSE IF t[i] = 92
    THEN IF i + 1 <= Len(t) /\ t[i + 1] \in {34, 92}
         THEN ScanString(t, i + 2, Append(acc, t[i + 1]))
         ELSE [ok |-> FALSE]
    ELSE IF t[i] < 32 THEN [ok |-> FALSE]
    ELSE ScanString(t, i + 1, Append(acc, t[i]))

\* The members "key":"value",... of a JSON object whose opening brace precedes
\* t[i], up to its closing brace (125).
RECURSIVE ParseMembers(_, _, _)
ParseMembers(t, i, acc) ==
    IF i > Len(t) THEN [ok |-> FALSE]
    ELSE IF t[i] = 125 /\ acc = <<>> THEN [ok |-> TRUE, members |-> acc, next |-> i + 1]
    ELSE IF t[i] # 34 THEN [ok |-> FALSE]
    ELSE LET k == ScanString(t, i + 1, <<>>)
             v == ScanString(t, k.next + 2, <<>>)
         IN  IF ~k.ok \/ k.next + 1 > Len(t) THEN [ok |-> FALSE]
             ELSE IF t[k.next] # 58 \/ t[k.next + 1] # 34 THEN [ok |-> FALSE]
             ELSE IF ~v.ok \/ v.next > Len(t) THEN [ok |-> FALSE]
             ELSE IF t[v.next] = 125
             THEN [ok |-> TRUE, members |-> Append(acc, <<k.str, v.str>>),
                   next |-> v.next + 1]
             ELSE IF t[v.next] = 44 /\ v.next < Len(t) /\ t[v.next + 1] = 34
             THEN ParseMembers(t, v.next + 1, Append(acc, <<k.str, v.str>>))
             ELSE [ok |-> FALSE]

\* {"selector":{
selectorOpen == <<123, 34, 115, 101, 108, 101, 99, 116, 111, 114, 34, 58, 123>>

\* The selector of a query string: its members, or an error when the text is
\* not JSON of the form {"selector":{...}}.
ParseSelector(queryString) ==
    LET m == ParseMembers(queryString, Len(selectorOpen) + 1, <<>>)
    IN  IF ~IsPrefix(selectorOpen, queryString) THEN [err |-> "InvalidQuery"]
        ELSE IF ~m.ok THEN [err |-> "InvalidQuery"]
        ELSE IF m.next # Len(queryString) \/ queryString[m.next] # 125
        THEN [err |-> "InvalidQuery"]
        ELSE [err |-> OK, selector |-> m.members]

\* A document matches a selector when every field the selector names equals
\* the value given; of a name given twice, the last value counts.
Matches(doc, selector) ==
    \A i \in 1..Len(selector) :
        (\E j \in (i + 1)..Len(selector) : selector[j][1] = selector[i][1])
        \/ /\ selector[i][1] \in DOMAIN JSONNames
           /\ JSONNames[selector[i][1]] \in DOMAIN doc
           /\ doc[JSONNames[selector[i][1]]] = selector[i][2]

\* The order of keys in the store: by code point, a prefix first.
KeyLess(a, b) ==
    \E i \in 1..Len(b) :
        /\ i - 1 <= Len(a)
        /\ \A j \in 1..(i - 1) : a[j] = b[j]
        /\ i > Len(a) \/ a[i] < b[i]

\* The key/value pairs of the given keys, in key order: what an iterator
\* yields.
Iterate(st, keys) ==
    [i \in 1..Cardinality(keys) |->
        LET key == CHOOSE k \in keys : Cardinality({o \in keys : KeyLess(o, k)}) = i - 1
        IN  [Key |-> key, Value |-> st[key]]]

\* The keys of the values whose documents match the query's selector. The
\* document the state database holds for a value has the fields of a JSON
\* value, and no field for a value that is not JSON (kept as an attachment).
Selected(st, selector) ==
    {k \in DOMAIN st : Matches(IF IsJSON(st[k]) THEN st[k].json ELSE <<>>, selector)}

\* stub.GetQueryResult(queryString): the values matching the selector, in key
\* order.
GetQueryResult(st, queryString) ==
    LET q == ParseSelector(queryString)
    IN  IF q.err # OK THEN [err |-> q.err, results |-> <<>>]
        ELSE [err |-> OK, results |-> Iterate(st, Selected(st, q.selector))]

\* The first pageSize elements of a sequence.  A page size of 0 with the
\* bookmark "" asks for no paging: the store answers with all of it.
Page(seq, pageSize) ==
    IF pageSize > 0 /\ Len(seq) > pageSize THEN SubSeq(seq, 1, pageSize) ELSE seq

\* A page of a query and its response metadata.  The bookmark is the
\* database's token for the position reached: here the last key returned.
QueryPage(page, bookmark) ==
    [err |-> OK, results |-> page,
     metadata |-> [FetchedRecordsCount |-> Len(page),
                   Bookmark |-> IF page = <<>> THEN bookmark ELSE page[Len(page)].Key]]

\* The matching values after the bookmark; "" is the start.
AfterBookmark(st, selector, bookmark) ==
    Iterate(st, {k \in Selected(st, selector) : bookmark = <<>> \/ KeyLess(bookmark, k)})

\* stub.GetQueryResultWithPagination(queryString, pageSize, bookmark): the
\* next page of the matching values and the response metadata.
GetQueryResultWithPagination(st, queryString, pageSize, bookmark) ==
    LET q == ParseSelector(queryString)
    IN  IF q.err # OK THEN [err |-> q.err, results |-> <<>>]
        ELSE QueryPage(Page(AfterBookmark(st, q.selector, bookmark), pageSize), bookmark)

\* The simple keys of [startKey, endKey); an empty endKey is no upper limit.
\* Composite keys sort before every simple key and are in no such range.
KeysInRange(st, startKey, endKey) ==
    {k \in DOMAIN st : /\ ~IsCompositeKey(k)
                       /\ ~KeyLess(k, startKey)
                       /\ endKey = <<>> \/ KeyLess(k, endKey)}

\* stub.GetStateByRange(startKey, endKey)
GetStateByRange(st, startKey, endKey) ==
    [err |-> OK, results |-> Iterate(st, KeysInRange(st, startKey, endKey))]

\* stub.GetStateByRangeWithPagination(startKey, endKey, pageSize, bookmark):
\* the page starting at the bookmark (at startKey when it is ""); the
\* bookmark returned is the key the next page starts at, "" after the last.
GetStateByRangeWithPagination(st, startKey, endKey, pageSize, bookmark) ==
    LET from == IF bookmark = <<>> THEN startKey ELSE bookmark
        all == Iterate(st, KeysInRange(st, from, endKey))
        page == Page(all, pageSize)
    IN  [err |-> OK, results |-> page,
         metadata |-> [FetchedRecordsCount |-> Len(page),
                       Bookmark |-> IF Len(all) > Len(page) THEN all[Len(page) + 1].Key
                                    ELSE <<>>]]

\* "}}
selectorClose == <<34, 125, 125>>

\* {"selector":{"docType":"lab","classID":"%s"}}
labByClassFormat ==
    <<123, 34, 115, 101, 108, 101, 99, 116, 111, 114, 34, 58, 123, 34, 100,
      111, 99, 84, 121, 112, 101, 34, 58, 34, 108, 97, 98, 34, 44, 34, 99,
      108, 97, 115, 115, 73, 68, 34, 58, 34>>

\* fmt.Sprintf(format, arg) for a format with one %s.
Sprintf(formatHead, arg, formatTail) == formatHead \o arg \o formatTail

----------------------------------------------------------------------------
(* The queries of LabContract, InstanceContract and SubmissionContract.    *)

\* constructQueryResponseFromIterator (LabContract): fails on the first value
\* that does not parse.
constructQueryResponseFromIterator(results) ==
    LET parsed == [i \in 1..Len(results) |-> UnmarshalLab(results[i].Value)]
        failed == {i \in 1..Len(results) : parsed[i].err # OK}
    IN  IF failed # {}
        THEN [err |-> parsed[CHOOSE i \in failed : \A j \in failed : i <= j].err,
              records |-> <<>>]
        ELSE [err |-> OK, records |-> [i \in 1..Len(results) |-> parsed[i].v]]

getQueryResultForQueryString(st, queryString) ==
    LET resultsIterator == GetQueryResult(st, queryString)
    IN  IF resultsIterator.err # OK THEN [err |-> resultsIterator.err, records |-> <<>>]
        ELSE constructQueryResponseFromIterator(resultsIterator.results)

QueryLabsByClass(st, c) ==
    getQueryResultForQueryString(st, Sprintf(labByClassFormat, c, selectorClose))

QueryLabs(st, queryString) == getQueryResultForQueryString(st, queryString)

GetLabsByRange(st, startKey, endKey) ==
    constructQueryResponseFromIterator(GetStateByRange(st, startKey, endKey).results)

\* ReadLabs: the scan of all keys, with the loop of its own; it returns the
\* error of the first value that does not parse.
ReadLabs(st) ==
    LET results == GetStateByRange(st, <<>>, <<>>).results
        parsed == [i \in 1..Len(results) |-> UnmarshalLab(results[i].Value)]
        failed == {i \in 1..Len(results) : parsed[i].err # OK}
    IN  IF failed # {}
        THEN [err |-> parsed[CHOOSE i \in failed : \A j \in failed : i <= j].err,
              records |-> <<>>]
        ELSE [err |-> OK, records |-> [i \in 1..Len(results) |-> parsed[i].v]]

\* GetAllClassses (ClassContract): the same loop over Class values.
GetAllClassses(st) ==
    LET results == GetStateByRange(st, <<>>, <<>>).results
        parsed == [i \in 1..Len(results) |-> UnmarshalClass(results[i].Value)]
        failed == {i \in 1..Len(results) : parsed[i].err # OK}
    IN  IF failed # {}
        THEN [err |-> parsed[CHOOSE i \in failed : \A j \in failed : i <= j].err,
              records |-> <<>>]
        ELSE [err |-> OK, records |-> [i \in 1..Len(results) |-> parsed[i].v]]

\* The response metadata is dropped: the handler returns the records only.
\* int32(pageSize) keeps the value of every page size of this model, which
\* are all within 32 bits.
GetAssetsByRangeWithPagination(st, startKey, endKey, pageSize, bookmark) ==
    LET resultsIterator ==
            GetStateByRangeWithPagination(st, startKey, endKey, pageSize, bookmark)
    IN  IF resultsIterator.err # OK THEN [err |-> resultsIterator.err, records |-> <<>>]
        ELSE constructQueryResponseFromIterator(resultsIterator.results)

\* type PaginatedQueryResult struct: the answer of a paginated query.
PaginatedQueryResult(labs, responseMetadata) ==
    IF labs.err # OK THEN [err |-> labs.err]
    ELSE [err |-> OK,
          Labs |-> labs.records,
          FetchedRecordsCount |-> responseMetadata.FetchedRecordsCount,
          Bookmark |-> responseMetadata.Bookmark]

\* getQueryResultForQueryStringWithPagination answering with the bookmark it
\* was given.
getQueryResultStaleBookmark(st, queryString, pageSize, bookmark) ==
    LET resultsIterator == GetQueryResultWithPagination(st, queryString, pageSize, bookmark)
    IN  PaginatedQueryResult(constructQueryResponseFromIterator(resultsIterator.results),
                             [resultsIterator.metadata EXCEPT !.Bookmark = bookmark])

getQueryResultForQueryStringWithPagination(st, queryString, pageSize, bookmark) ==
    LET resultsIterator == GetQueryResultWithPagination(st, queryString, pageSize, bookmark)
    IN  IF resultsIterator.err # OK THEN [err |-> resultsIterator.err]
        ELSE PaginatedQueryResult(constructQueryResponseFromIterator(resultsIterator.results),
                                  resultsIterator.metadata)

QueryAssetsWithPagination(st, queryString, pageSize, bookmark) ==
    getQueryResultForQueryStringWithPagination(st, queryString, pageSize, bookmark)

\* constructQueryResponseFromIterator (InstanceContract)
constructInstanceResponseFromIterator(results) ==
    LET parsed == [i \in 1..Len(results) |-> UnmarshalInstance(results[i].Value)]
        failed == {i \in 1..Len(results) : parsed[i].err # OK}
    IN  IF failed # {}
        THEN [err |-> parsed[CHOOSE i \in failed : \A j \in failed : i <= j].err,
              records |-> <<>>]
        ELSE [err |-> OK, records |-> [i \in 1..Len(results) |-> parsed[i].v]]

\* getQueryResultForQueryString (InstanceContract)
getInstanceQueryResultForQueryString(st, queryString) ==
    LET resultsIterator == GetQueryResult(st, queryString)
    IN  IF resultsIterator.err # OK THEN [err |-> resultsIterator.err, records |-> <<>>]
        ELSE constructInstanceResponseFromIterator(resultsIterator.results)

\* {"selector":{"docType":"instance","classID":"%s"}}
QueryInstanceByClass(st, c) ==
    getInstanceQueryResultForQueryString(st,
        Sprintf(
            <<123, 34, 115, 101, 108, 101, 99, 116, 111, 114, 34, 58, 123, 34, 100,
            111, 99, 84, 121, 112, 101, 34, 58, 34, 105, 110, 115, 116, 97, 110,
            99, 101, 34, 44, 34, 99, 108, 97, 115, 115, 73, 68, 34, 58, 34>>,
            c, selectorClose))

\* {"selector":{"docType":"instance","labID":"%s"}}
QueryInstanceByLab(st, l) ==
    getInstanceQueryResultForQueryString(st,
        Sprintf(
            <<123, 34, 115, 101, 108, 101, 99, 116, 111, 114, 34, 58, 123, 34, 100,
            111, 99, 84, 121, 112, 101, 34, 58, 34, 105, 110, 115, 116, 97, 110,
            99, 101, 34, 44, 34, 108, 97, 98, 73, 68, 34, 58, 34>>,
            l, selectorClose))

\* {"selector":{"docType":"instance","owner":"%s"}}
QueryInstanceByOwner(st, owner) ==
    getInstanceQueryResultForQueryString(st,
        Sprintf(
            <<123, 34, 115, 101, 108, 101, 99, 116, 111, 114, 34, 58, 123, 34, 100,
            111, 99, 84, 121, 112, 101, 34, 58, 34, 105, 110, 115, 116, 97, 110,
            99, 101, 34, 44, 34, 111, 119, 110, 101, 114, 34, 58, 34>>,
            owner, selectorClose))

\* constructQueryResponseFromIterator (SubmissionContract)
constructSubmissionResponseFromIterator(results) ==
    LET parsed == [i \in 1..Len(results) |-> UnmarshalSubmission(results[i].Value)]
        failed == {i \in 1..Len(results) : parsed[i].err # OK}
    IN  IF failed # {}
        THEN [err |-> parsed[CHOOSE i \in failed : \A j \in failed : i <= j].err,
              records |-> <<>>]
        ELSE [err |-> OK, records |-> [i \in 1..Len(results) |-> parsed[i].v]]

\* getQueryResultForQueryString (SubmissionContract)
getSubmissionQueryResultForQueryString(st, queryString) ==
    LET resultsIterator == GetQueryResult(st, queryString)
    IN  IF resultsIterator.err # OK THEN [err |-> resultsIterator.err, records |-> <<>>]
        ELSE constructSubmissionResponseFromIterator(resultsIterator.results)

\* QueryInstanceByClass, QueryInstanceByLab, QueryInstanceByOwner of
\* SubmissionContract.
\* {"selector":{"docType":"submission","classID":"%s"}}
QuerySubmissionByClass(st, c) ==
    getSubmissionQueryResultForQueryString(st,
        Sprintf(
            <<123, 34, 115, 101, 108, 101, 99, 116, 111, 114, 34, 58, 123, 34, 100,
            111, 99, 84, 121, 112, 101, 34, 58, 34, 115, 117, 98, 109, 105, 115,
            115, 105, 111, 110, 34, 44, 34, 99, 108, 97, 115, 115, 73, 68, 34, 58,
            34>>,
            c, selectorClose))

\* {"selector":{"docType":"submission","labID":"%s"}}
QuerySubmissionByLab(st, l) ==
    getSubmissionQueryResultForQueryString(st,
        Sprintf(
            <<123, 34, 115, 101, 108, 101, 99, 116, 111, 114, 34, 58, 123, 34, 100,
            111, 99, 84, 121, 112, 101, 34, 58, 34, 115, 117, 98, 109, 105, 115,
            115, 105, 111, 110, 34, 44, 34, 108, 97, 98, 73, 68, 34, 58, 34>>,
            l, selectorClose))

\* {"selector":{"docType":"submission","owner":"%s"}}
QuerySubmissionByOwner(st, owner) ==
    getSubmissionQueryResultForQueryString(st,
        Sprintf(
            <<123, 34, 115, 101, 108, 101, 99, 116, 111, 114, 34, 58, 123, 34, 100,
            111, 99, 84, 121, 112, 101, 34, 58, 34, 115, 117, 98, 109, 105, 115,
            115, 105, 111, 110, 34, 44, 34, 111, 119, 110, 101, 114, 34, 58, 34>>,
            owner, selectorClose))

----------------------------------------------------------------------------
(* chaincode/lab/lab.go: InitLedger of the three contracts                 *)

\* The seed records of InitLedger in list order, as Create stores them:
\* "lab1", "lab2", "lab3"; "instance1", "instance2", "instance3";
\* "submission1", "submission2", "submission3".  Name "class1", Content and
\* Config "test", Image "1", StartTime and EndTime "2022".
Seeds ==
    CASE chaincode = "lab" ->
            [i \in 1..3 |->
                [DocType |-> lab, ID |-> <<108, 97, 98, 48 + i>>, ClassID |-> class1,
                 Name |-> class1, Content |-> <<116, 101, 115, 116>>, Image |-> <<49>>,
                 StartTime |-> <<50, 48, 50, 50>>, EndTime |-> <<50, 48, 50, 50>>,
                 Owner |-> Tom]]
      [] chaincode = "instance" ->
            [i \in 1..3 |->
                [DocType |-> instance, ID |-> instance \o <<48 + i>>, ClassID |-> class1,
                 LabID |-> IF i = 3 THEN lab2 ELSE lab1, Config |-> <<116, 101, 115, 116>>,
                 Owner |-> IF i = 3 THEN Sam ELSE Tom]]
      [] OTHER ->
            [i \in 1..3 |->
                [DocType |-> submission, ID |-> submission \o <<48 + i>>,
                 ClassID |-> class1, LabID |-> IF i = 3 THEN lab2 ELSE lab1,
                 Content |-> <<116, 101, 115, 116>>,
                 Owner |-> IF i = 3 THEN Sam ELSE Tom, Score |-> 0]]

\* InitLedger creating the third seed first.
InitLedgerTxLastFirst(st, f) ==
    LET Create(s, i) ==
            CASE chaincode = "lab" ->
                    CreateLabTx(s, Seeds[i].ID, Seeds[i].ClassID, Seeds[i].Name,
                                Seeds[i].Content, Seeds[i].Image, Seeds[i].StartTime,
                                Seeds[i].EndTime, Seeds[i].Owner, 0)
              [] chaincode = "instance" ->
                    CreateInstanceTx(s, Seeds[i].ID, Seeds[i].LabID, Seeds[i].ClassID,
                                     Seeds[i].Config, Seeds[i].Owner, 0)
              [] OTHER ->
                    CreateSubmissionTx(s, Seeds[i].ID, Seeds[i].LabID, Seeds[i].ClassID,
                                       Seeds[i].Content, Seeds[i].Owner, 0)
        r3 == Create(st, 3)
        r1 == Create(r3.st, 1)
        r2 == Create(r1.st, 2)
    IN  IF r3.err # OK THEN [seed |-> 3] @@ r3
        ELSE IF r1.err # OK THEN [seed |-> 1] @@ r1
        ELSE [seed |-> 2] @@ r2

\* The loop over the seeds: each is handed to the contract's Create, and the
\* first error is returned.  Store calls: those of the Creates in turn, 3 for a
\* lab and 5 for an instance or a submission; `seed` is the seed whose Create
\* returned last.
InitLedgerTx(st, f) ==
    LET n == IF chaincode = "lab" THEN 3 ELSE 5
        Create(s, i) ==
            LET g == IF f > n * (i - 1) THEN f - n * (i - 1) ELSE 0
            IN  CASE chaincode = "lab" ->
                        CreateLabTx(s, Seeds[i].ID, Seeds[i].ClassID, Seeds[i].Name,
                                    Seeds[i].Content, Seeds[i].Image, Seeds[i].StartTime,
                                    Seeds[i].EndTime, Seeds[i].Owner, g)
                  [] chaincode = "instance" ->
                        CreateInstanceTx(s, Seeds[i].ID, Seeds[i].LabID, Seeds[i].ClassID,
                                         Seeds[i].Config, Seeds[i].Owner, g)
                  [] OTHER ->
                        CreateSubmissionTx(s, Seeds[i].ID, Seeds[i].LabID, Seeds[i].ClassID,
                                           Seeds[i].Content, Seeds[i].Owner, g)
        r1 == Create(st, 1)
        r2 == Create(r1.st, 2)
        r3 == Create(r2.st, 3)
    IN  IF r1.err # OK THEN [seed |-> 1] @@ r1
        ELSE IF r2.err # OK THEN [seed |-> 2] @@ r2
        ELSE [seed |-> 3] @@ r3

----------------------------------------------------------------------------
(* The invocations: one action per handler.                                *)

\* The handlers that create and that delete a record.  A Delete is recorded
\* with the keys it removed, and a Create that directly follows the successful
\* Delete of its id with the keys that Delete removed.
Creates == {"CreateClass", "CreateLab", "CreateInstance", "CreateSubmission"}
Deletes == {"DeleteClass", "DeleteLab", "DeleteInstance", "DeleteSubmission"}

\* The client identity an invocation is made under.
Caller(ctx) == GetSubmittingClientIdentity(ctx).id

Invocation(op, id, caller, err, arg) ==
    [op |-> op, id |-> id, caller |-> caller, err |-> err, arg |-> arg]

CreateClass(ctx, id, name, content, owner) ==
    /\ chaincode = "class"
    /\ \E f \in Faults(2) :
        LET r == CreateClassTx(state, ctx, id, name, content, owner, f)
        IN  /\ state' = r.st
            /\ last' = [op |-> "CreateClass", id |-> id, caller |-> Caller(ctx),
                        err |-> r.err,
                        arg |-> [ID |-> id, Name |-> name, Content |-> content,
                                 Owner |-> owner],
                        creator |-> AssertAttributeValue(ctx, classCreator, true) = OK,
                        failed |-> f,
                        replaces |-> IF last.op \in Deletes /\ last.err = OK /\ last.id = id
                                     THEN last.removed ELSE {}]
    /\ UNCHANGED <<chaincode, storeFails, handed, pager>>

UpdateClass(ctx, id, newName, newContent) ==
    /\ chaincode = "class"
    /\ \E f \in Faults(2) :
        LET r == UpdateClassTx(state, ctx, id, newName, newContent, f)
        IN  /\ state' = r.st
            /\ last' = [failed |-> f] @@ Invocation("UpdateClass", id, Caller(ctx), r.err,
                          [Name |-> newName, Content |-> newContent])
    /\ UNCHANGED <<chaincode, storeFails, handed, pager>>

DeleteClass(ctx, id) ==
    /\ chaincode = "class"
    /\ \E f \in Faults(2) :
        LET r == DeleteClassTx(state, ctx, id, f)
        IN  /\ state' = r.st
            /\ last' = [failed |-> f, removed |-> DOMAIN state \ DOMAIN r.st]
                        @@ Invocation("DeleteClass", id, Caller(ctx), r.err, <<>>)
    /\ UNCHANGED <<chaincode, storeFails, handed, pager>>

TransferClass(ctx, id, newOwner) ==
    /\ chaincode = "class"
    /\ \E f \in Faults(2) :
        LET r == TransferClassTx(state, ctx, id, newOwner, f)
        IN  /\ state' = r.st
            /\ last' = [failed |-> f] @@ Invocation("TransferClass", id, Caller(ctx), r.err,
                          [Owner |-> newOwner])
            /\ handed' = IF r.err = OK /\ newOwner # Caller(ctx)
                         THEN handed \cup {<<id, Caller(ctx), newOwner>>} ELSE handed
    /\ UNCHANGED <<chaincode, storeFails, pager>>

CreateLab(labID, classID, name, content, image, startTime, endTime, owner) ==
    /\ chaincode = "lab"
    /\ \E f \in Faults(3) :
        LET r == CreateLabTx(state, labID, classID, name, content, image,
                             startTime, endTime, owner, f)
        IN  /\ state' = r.st
            /\ last' = [failed |-> f,
                        replaces |-> IF last.op \in Deletes /\ last.err = OK /\ last.id = labID
                                     THEN last.removed ELSE {}]
                       @@ Invocation("CreateLab", labID, <<>>, r.err,
                          [DocType |-> lab, ID |-> labID, ClassID |-> classID,
                           Name |-> name, Content |-> content, Image |-> image,
                           StartTime |-> startTime, EndTime |-> endTime,
                           Owner |-> owner])
    /\ UNCHANGED <<chaincode, storeFails, handed, pager>>

DeleteLab(labID, clientID) ==
    /\ chaincode = "lab"
    /\ \E f \in Faults(3) :
        LET r == DeleteLabTx(state, labID, clientID, f)
        IN  /\ state' = r.st
            /\ last' = [failed |-> f, removed |-> DOMAIN state \ DOMAIN r.st]
                        @@ Invocation("DeleteLab", labID, clientID, r.err, <<>>)
    /\ UNCHANGED <<chaincode, storeFails, handed, pager>>

UpdateLabContent(labID, newContent, clientID) ==
    /\ chaincode = "lab"
    /\ \E f \in Faults(2) :
        LET r == UpdateLabContentTx(state, labID, newContent, clientID, f)
        IN  /\ state' = r.st
            /\ last' = [failed |-> f] @@ Invocation("UpdateLabContent", labID, clientID, r.err,
                          [Content |-> newContent])
    /\ UNCHANGED <<chaincode, storeFails, handed, pager>>

UpdateLabImage(labID, newImage, clientID) ==
    /\ chaincode = "lab"
    /\ \E f \in Faults(2) :
        LET r == UpdateLabImageTx(state, labID, newImage, clientID, f)
        IN  /\ state' = r.st
            /\ last' = [failed |-> f] @@ Invocation("UpdateLabImage", labID, clientID, r.err,
                          [Image |-> newImage])
    /\ UNCHANGED <<chaincode, storeFails, handed, pager>>

UpdateLabEndtime(labID, newTime, clientID) ==
    /\ chaincode = "lab"
    /\ \E f \in Faults(2) :
        LET r == UpdateLabEndtimeTx(state, labID, newTime, clientID, f)
        IN  /\ state' = r.st
            /\ last' = [failed |-> f] @@ Invocation("UpdateLabEndtime", labID, clientID, r.err,
                          [EndTime |-> newTime])
    /\ UNCHANGED <<chaincode, storeFails, handed, pager>>

UpdateLab(labID, newImage, newName, newContent, newStartTime, newEndTime, clientID) ==
    /\ chaincode = "lab"
    /\ \E f \in Faults(2) :
        LET r == UpdateLabTx(state, labID, newImage, newName, newContent,
                             newStartTime, newEndTime, clientID, f)
        IN  /\ state' = r.st
            /\ last' = [failed |-> f] @@ Invocation("UpdateLab", labID, clientID, r.err,
                          [Image |-> newImage, Name |-> newName, Content |-> newContent,
                           StartTime |-> newStartTime, EndTime |-> newEndTime])
    /\ UNCHANGED <<chaincode, storeFails, handed, pager>>

CreateInstance(instanceID, labID, classID, config, owner) ==
    /\ chaincode = "instance"
    /\ \E f \in Faults(5) :
        LET r == CreateInstanceTx(state, instanceID, labID, classID, config, owner, f)
        IN  /\ state' = r.st
            /\ last' = [failed |-> f,
                        replaces |-> IF last.op \in Deletes /\ last.err = OK /\ last.id = instanceID
                                     THEN last.removed ELSE {}]
                       @@ Invocation("CreateInstance", instanceID, <<>>, r.err,
                          [DocType |-> instance, ID |-> instanceID, ClassID |-> classID,
                           LabID |-> labID, Config |-> config, Owner |-> owner])
    /\ UNCHANGED <<chaincode, storeFails, handed, pager>>

DeleteInstance(instanceID, clientID) ==
    /\ chaincode = "instance"
    /\ \E f \in Faults(5) :
        LET r == DeleteInstanceTx(state, instanceID, clientID, f)
        IN  /\ state' = r.st
            /\ last' = [failed |-> f, removed |-> DOMAIN state \ DOMAIN r.st]
                        @@ Invocation("DeleteInstance", instanceID, clientID, r.err, <<>>)
    /\ UNCHANGED <<chaincode, storeFails, handed, pager>>

CreateSubmission(submissionID, labID, classID, content, owner) ==
    /\ chaincode = "submission"
    /\ \E f \in Faults(5) :
        LET r == CreateSubmissionTx(state, submissionID, labID, classID, content, owner, f)
        IN  /\ state' = r.st
            /\ last' = [failed |-> f,
                        replaces |-> IF last.op \in Deletes /\ last.err = OK /\ last.id = submissionID
                                     THEN last.removed ELSE {}]
                       @@ Invocation("CreateSubmission", submissionID, <<>>, r.err,
                          [DocType |-> submission, ID |-> submissionID,
                           ClassID |-> classID, LabID |-> labID, Content |-> content,
                           Owner |-> owner, Score |-> 0])
    /\ UNCHANGED <<chaincode, storeFails, handed, pager>>

DeleteSubmission(ctx, submissionID) ==
    /\ chaincode = "submission"
    /\ \E f \in Faults(5) :
        LET r == DeleteSubmissionTx(state, submissionID, f)
        IN  /\ state' = r.st
            /\ last' = [failed |-> f, removed |-> DOMAIN state \ DOMAIN r.st]
                        @@ Invocation("DeleteSubmission", submissionID, Caller(ctx), r.err, <<>>)
    /\ UNCHANGED <<chaincode, storeFails, handed, pager>>

UpdateSubmissionScore(ctx, submissionID, newScore) ==
    /\ chaincode = "submission"
    /\ \E f \in Faults(2) :
        LET r == UpdateSubmissionScoreTx(state, submissionID, newScore, f)
        IN  /\ state' = r.st
            /\ last' = [failed |-> f] @@ Invocation("UpdateSubmissionScore", submissionID, Caller(ctx),
                          r.err, [Score |-> newScore])
    /\ UNCHANGED <<chaincode, storeFails, handed, pager>>

\* A read-only invocation of a query handler: the argument and the answer.
Answer(op, arg, r) ==
    [op |-> op, id |-> <<>>, caller |-> <<>>, err |-> r.err, arg |-> arg,
     records |-> r.records]

EvaluateQueryLabsByClass(c) ==
    /\ chaincode = "lab"
    /\ last' = Answer("QueryLabsByClass", c, QueryLabsByClass(state, c))
    /\ UNCHANGED <<chaincode, state, storeFails, handed, pager>>

EvaluateQueryInstanceByClass(c) ==
    /\ chaincode = "instance"
    /\ last' = Answer("QueryInstanceByClass", c, QueryInstanceByClass(state, c))
    /\ UNCHANGED <<chaincode, state, storeFails, handed, pager>>

EvaluateQueryInstanceByLab(l) ==
    /\ chaincode = "instance"
    /\ last' = Answer("QueryInstanceByLab", l, QueryInstanceByLab(state, l))
    /\ UNCHANGED <<chaincode, state, storeFails, handed, pager>>

EvaluateQueryInstanceByOwner(owner) ==
    /\ chaincode = "instance"
    /\ last' = Answer("QueryInstanceByOwner", owner, QueryInstanceByOwner(state, owner))
    /\ UNCHANGED <<chaincode, state, storeFails, handed, pager>>

EvaluateQuerySubmissionByClass(c) ==
    /\ chaincode = "submission"
    /\ last' = Answer("QuerySubmissionByClass", c, QuerySubmissionByClass(state, c))
    /\ UNCHANGED <<chaincode, state, storeFails, handed, pager>>

EvaluateQuerySubmissionByLab(l) ==
    /\ chaincode = "submission"
    /\ last' = Answer("QuerySubmissionByLab", l, QuerySubmissionByLab(state, l))
    /\ UNCHANGED <<chaincode, state, storeFails, handed, pager>>

EvaluateQuerySubmissionByOwner(owner) ==
    /\ chaincode = "submission"
    /\ last' = Answer("QuerySubmissionByOwner", owner, QuerySubmissionByOwner(state, owner))
    /\ UNCHANGED <<chaincode, state, storeFails, handed, pager>>

----------------------------------------------------------------------------
(* The specification: any client invokes any handler of the chaincode.     *)

Init ==
    /\ chaincode \in {"class", "lab", "instance", "submission"}
    /\ state = [k \in {} |-> Nil]
    /\ last = Invocation("none", <<>>, <<>>, OK, <<>>)
    /\ storeFails = FALSE
    /\ handed = {}
    /\ pager = [mode |-> "none"]

Next ==
    \/ \E ctx \in Contexts, id \in IDs("class"), name \in Names,
          content \in Contents, owner \in Owners :
            CreateClass(ctx, id, name, content, owner)
    \/ \E ctx \in Contexts, id \in IDs("class"), newName \in {<<110, 49>>},
          newContent \in {<<99, 49>>} :
            UpdateClass(ctx, id, newName, newContent)
    \/ \E ctx \in Contexts, id \in IDs("class") : DeleteClass(ctx, id)
    \/ \E ctx \in Contexts, id \in IDs("class"), newOwner \in Owners :
            TransferClass(ctx, id, newOwner)
    \/ \E labID \in IDs("lab"), classID \in ClassIDs, name \in Names,
          content \in Contents, image \in {<<105, 48>>}, startTime \in {<<115, 48>>},
          endTime \in {<<101, 48>>}, owner \in Owners :
            CreateLab(labID, classID, name, content, image, startTime, endTime, owner)
    \/ \E labID \in IDs("lab"), clientID \in Identities : DeleteLab(labID, clientID)
    \/ \E labID \in IDs("lab"), newContent \in {<<99, 49>>}, clientID \in Identities :
            UpdateLabContent(labID, newContent, clientID)
    \/ \E labID \in IDs("lab"), newImage \in {<<105, 49>>}, clientID \in Identities :
            UpdateLabImage(labID, newImage, clientID)
    \/ \E labID \in IDs("lab"), newTime \in {<<101, 49>>}, clientID \in Identities :
            UpdateLabEndtime(labID, newTime, clientID)
    \/ \E labID \in IDs("lab"), newImage \in {<<105, 49>>}, newName \in {<<110, 49>>},
          newContent \in {<<99, 49>>}, newStartTime \in {<<115, 49>>},
          newEndTime \in {<<101, 49>>}, clientID \in Identities :
            UpdateLab(labID, newImage, newName, newContent, newStartTime,
                      newEndTime, clientID)
    \/ \E instanceID \in IDs("instance"), labID \in LabIDs, classID \in ClassIDs,
          config \in {<<103, 48>>}, owner \in Owners :
            CreateInstance(instanceID, labID, classID, config, owner)
    \/ \E instanceID \in IDs("instance"), clientID \in Identities :
            DeleteInstance(instanceID, clientID)
    \/ \E submissionID \in IDs("submission"), labID \in LabIDs, classID \in ClassIDs,
          content \in Contents, owner \in Owners :
            CreateSubmission(submissionID, labID, classID, content, owner)
    \/ \E ctx \in Contexts, submissionID \in IDs("submission") :
            DeleteSubmission(ctx, submissionID)
    \/ \E ctx \in Contexts, submissionID \in IDs("submission"), newScore \in NewScores :
            UpdateSubmissionScore(ctx, submissionID, newScore)
    \/ \E c \in ClassIDs \cup {injected} : EvaluateQueryLabsByClass(c)
    \/ \E c \in ClassIDs \cup {injected} : EvaluateQueryInstanceByClass(c)
    \/ \E l \in LabIDs : EvaluateQueryInstanceByLab(l)
    \/ \E owner \in Owners : EvaluateQueryInstanceByOwner(owner)
    \/ \E c \in ClassIDs \cup {injected} : EvaluateQuerySubmissionByClass(c)
    \/ \E l \in LabIDs : EvaluateQuerySubmissionByLab(l)
    \/ \E owner \in Owners : EvaluateQuerySubmissionByOwner(owner)

Spec == Init /\ [][Next]_vars

\* The writing handlers over a store that may fail any one call of an
\* invocation: the calls issued before the failing one have taken effect.
\* The clients work on one id of each kind.
\* An Exists that puts a placeholder under an id it does not find.
EvaluateExistsCreates(id) ==
    /\ last' = [failed |-> 0] @@ Invocation("Exists", id, <<>>, OK, id \in DOMAIN state)
    /\ state' = IF id \in DOMAIN state THEN state ELSE PutState(state, id, indexValue)
    /\ UNCHANGED <<chaincode, storeFails, handed, pager>>

\* ClassExists, LabExists, InstanceExists, SubmissionExists, evaluated by a
\* client: one GetState, no write.
EvaluateExists(id) ==
    /\ \E f \in Faults(1) :
        LET r == CASE chaincode = "lab" -> LabExists(state, id, f = 1)
                   [] chaincode = "instance" -> InstanceExists(state, id, f = 1)
                   [] chaincode = "submission" -> SubmissionExists(state, id, f = 1)
                   [] OTHER -> ClassExists(state, id, f = 1)
        IN  last' = [failed |-> f] @@ Invocation("Exists", id, <<>>, r.err, r.exists)
    /\ UNCHANGED <<chaincode, state, storeFails, handed, pager>>

\* ReadClass, ReadLab, ReadInstance, ReadSubmission, evaluated by a client:
\* one GetState, no write.
EvaluateRead(id) ==
    /\ \E f \in Faults(1) :
        LET r == CASE chaincode = "lab" -> ReadLab(state, id, f = 1)
                   [] chaincode = "instance" -> ReadInstance(state, id, f = 1)
                   [] chaincode = "submission" -> ReadSubmission(state, id, f = 1)
                   [] OTHER -> ReadClass(state, id, f = 1)
        IN  last' = [failed |-> f] @@ Invocation("Read", id, <<>>, r.err, <<>>)
    /\ UNCHANGED <<chaincode, state, storeFails, handed, pager>>

InitFail ==
    /\ chaincode \in {"class", "lab", "instance", "submission"}
    /\ state = [k \in {} |-> Nil]
    /\ last = Invocation("none", <<>>, <<>>, OK, <<>>)
    /\ storeFails = TRUE
    /\ handed = {}
    /\ pager = [mode |-> "none"]

\* A class id of the one character U+0000 is among the values submitted: no
\* composite key can be built from it.
NextFail ==
    \/ \E ctx \in Contexts, name \in Names, content \in Contents, owner \in Owners :
            CreateClass(ctx, class1, name, content, owner)
    \/ \E ctx \in Contexts : UpdateClass(ctx, class1, <<110, 49>>, <<99, 49>>)
    \/ \E ctx \in Contexts : DeleteClass(ctx, class1)
    \/ \E ctx \in Contexts, newOwner \in Owners : TransferClass(ctx, class1, newOwner)
    \/ \E classID \in {class1, <<0>>}, owner \in Owners :
            CreateLab(lab1, classID, <<110, 48>>, <<99, 48>>, <<105, 48>>, <<115, 48>>,
                      <<101, 48>>, owner)
    \/ \E clientID \in Identities : DeleteLab(lab1, clientID)
    \/ \E clientID \in Identities : UpdateLabContent(lab1, <<99, 49>>, clientID)
    \/ \E clientID \in Identities : UpdateLabImage(lab1, <<105, 49>>, clientID)
    \/ \E clientID \in Identities : UpdateLabEndtime(lab1, <<101, 49>>, clientID)
    \/ \E clientID \in Identities :
            UpdateLab(lab1, <<105, 49>>, <<110, 49>>, <<99, 49>>, <<115, 49>>,
                      <<101, 49>>, clientID)
    \/ \E classID \in {class1, <<0>>}, owner \in Owners :
            CreateInstance(instance \o <<49>>, lab1, classID, <<103, 48>>, owner)
    \/ \E clientID \in Identities : DeleteInstance(instance \o <<49>>, clientID)
    \/ \E classID \in {class1, <<0>>}, owner \in Owners :
            CreateSubmission(submission \o <<49>>, lab1, classID, <<99, 48>>, owner)
    \/ \E ctx \in Contexts : DeleteSubmission(ctx, submission \o <<49>>)
    \/ \E ctx \in Contexts, newScore \in NewScores :
            UpdateSubmissionScore(ctx, submission \o <<49>>, newScore)
    \/ \E id \in {class1, lab1, instance \o <<49>>, submission \o <<49>>} :
            EvaluateExists(id)
    \/ \E id \in {class1, lab1, instance \o <<49>>, submission \o <<49>>} :
            EvaluateRead(id)

SpecFail == InitFail /\ [][NextFail]_vars

----------------------------------------------------------------------------
(* The index keys the handlers build: CreateCompositeKey on an index name, *)
(* a field value and the record's ID, for values of up to MaxSegment       *)
(* characters of "~" and "a", and the value of the one character U+0000.   *)

MaxSegment == 2

CompositeKeyOf(name, value, id) ==
    /\ LET key == CreateCompositeKey(name, <<value, id>>)
       IN  last' = [key |-> key.key]
                   @@ Invocation("CreateCompositeKey", id, <<>>, key.err, <<name, value, id>>)
    /\ UNCHANGED <<chaincode, state, storeFails, handed, pager>>

NextKey ==
    \E name \in {index1, index2, index3} :
        \E value, id \in UNION {[1..n -> {126, 97}] : n \in 0..MaxSegment} \cup {<<0>>} :
            CompositeKeyOf(name, value, id)

SpecKey == Init /\ [][NextKey]_vars

----------------------------------------------------------------------------
(* The client of the paginated queries of the lab chaincode: it asks for   *)
(* the first page with bookmark "" and passes on the bookmark of each      *)
(* answer, while nothing is written to the store.                          *)

\* {"selector":{"docType":"lab"}}
labsQuery ==
    <<123, 34, 115, 101, 108, 101, 99, 116, 111, 114, 34, 58, 123, 34, 100, 111,
      99, 84, 121, 112, 101, 34, 58, 34, 108, 97, 98, 34, 125, 125>>

\* lab1, lab2, ...
PageLabID(n) == lab \o <<48 + n>>

\* The client gives up after this many calls.
MaxCalls == NumPageRecs + 2

InitPage ==
    /\ chaincode = "lab"
    /\ state = [k \in {} |-> Nil]
    /\ last = Invocation("none", <<>>, <<>>, OK, <<>>)
    /\ storeFails = FALSE
    /\ handed = {}
    /\ \E mode \in {"query", "range"}, pageSize \in 0..MaxPageSize,
          queryString \in {labsQuery, Sprintf(labByClassFormat, class1, selectorClose)},
          range \in {<< <<>>, <<>> >>, <<PageLabID(2), PageLabID(4)>>} :
          pager = [mode |-> mode, pageSize |-> pageSize,
                   queryString |-> IF mode = "query" THEN queryString ELSE <<>>,
                   startKey |-> IF mode = "range" THEN range[1] ELSE <<>>,
                   endKey |-> IF mode = "range" THEN range[2] ELSE <<>>,
                   bookmark |-> <<>>, pages |-> <<>>, calls |-> 0,
                   response |-> [err |-> OK], done |-> FALSE]

\* Before the first page is asked for, CreateLab fills the store with
\* lab1, lab2, ... up to NumPageRecs labs.
PopulateLab(classID) ==
    /\ Cardinality(Records(state)) < NumPageRecs
    /\ CreateLab(PageLabID(Cardinality(Records(state)) + 1), classID, <<110, 48>>,
                 <<99, 48>>, <<105, 48>>, <<115, 48>>, <<101, 48>>, Tom)

\* The client receives an answer: it keeps the records and the bookmark.
\* An answer that holds no bookmark leaves the client with the one it has;
\* an error ends the calls.
Receive(op, r, records, fetchedCount) ==
    /\ pager' = IF r.err # OK
                THEN [pager EXCEPT !.calls = @ + 1, !.response = r, !.done = TRUE]
                ELSE [pager EXCEPT !.bookmark = IF "Bookmark" \in DOMAIN r
                                                THEN r.Bookmark ELSE @,
                                   !.pages = @ \o records,
                                   !.calls = @ + 1,
                                   !.response = r,
                                   !.done = (fetchedCount = 0)]
    /\ last' = [op |-> op, id |-> <<>>, caller |-> <<>>, err |-> r.err,
                arg |-> pager.bookmark,
                records |-> IF r.err # OK THEN <<>> ELSE records]
    /\ UNCHANGED <<chaincode, state, storeFails, handed>>

\* The Labs and the FetchedRecordsCount of an answer of QueryAssetsWithPagination.
ReceiveResult(op, r) == Receive(op, r, r.Labs, r.FetchedRecordsCount)

\* The records of an answer of GetAssetsByRangeWithPagination; their number
\* stands for the count the answer does not hold.
ReceiveRecords(op, r) == Receive(op, r, r.records, Len(r.records))

\* The next call of QueryAssetsWithPagination, until fetchedCount is 0.  With
\* a page size of 0 the client makes one call.
EvaluateQueryAssetsWithPagination ==
    /\ Cardinality(Records(state)) = NumPageRecs
    /\ pager.mode = "query" /\ ~pager.done /\ pager.calls < MaxCalls
    /\ pager.pageSize > 0 \/ pager.calls = 0
    /\ ReceiveResult("QueryAssetsWithPagination",
                     QueryAssetsWithPagination(state, pager.queryString, pager.pageSize,
                                               pager.bookmark))

\* The next call of GetAssetsByRangeWithPagination, until a page is empty.
\* With a page size of 0 the client makes one call.
EvaluateGetAssetsByRangeWithPagination ==
    /\ Cardinality(Records(state)) = NumPageRecs
    /\ pager.mode = "range" /\ ~pager.done /\ pager.calls < MaxCalls
    /\ pager.pageSize > 0 \/ pager.calls = 0
    /\ ReceiveRecords("GetAssetsByRangeWithPagination",
                      GetAssetsByRangeWithPagination(state, pager.startKey, pager.endKey,
                                                     pager.pageSize, pager.bookmark))

NextPage ==
    \/ \E classID \in {class1, class \o <<50>>} : PopulateLab(classID)
    \/ EvaluateQueryAssetsWithPagination
    \/ EvaluateGetAssetsByRangeWithPagination

SpecPage == InitPage /\ [][NextPage]_vars

----------------------------------------------------------------------------
(* The range scans as functions of the store they run over.  The stores    *)
(* are the ones a scan may be handed: under the simple keys of the scanned *)
(* interval, records of the kind and values that are no record of the kind *)
(* (the one-byte value 0x00 of an index entry).                            *)

InitScan ==
    /\ chaincode \in {"lab", "class"}
    /\ \E keys \in SUBSET (IDs(chaincode) \cup {lab \o <<51>>}) :
       \E owner \in [keys -> Owners \cup {<<>>}] :
          state = [k \in keys |->
                     IF owner[k] = <<>> THEN indexValue
                     ELSE IF chaincode = "lab"
                     THEN MarshalLab([DocType |-> lab, ID |-> k, ClassID |-> class1,
                                      Name |-> <<110, 48>>, Content |-> <<99, 48>>,
                                      Image |-> <<105, 48>>, StartTime |-> <<115, 48>>,
                                      EndTime |-> <<101, 48>>, Owner |-> owner[k]])
                     ELSE MarshalClass([ID |-> k, Name |-> <<110, 48>>,
                                        Content |-> <<99, 48>>, Owner |-> owner[k]])]
    /\ last = Invocation("none", <<>>, <<>>, OK, <<>>)
    /\ storeFails = FALSE
    /\ handed = {}
    /\ pager = [mode |-> "none"]

EvaluateReadLabs ==
    /\ chaincode = "lab"
    /\ last' = Answer("ReadLabs", << <<>>, <<>> >>, ReadLabs(state))
    /\ UNCHANGED <<chaincode, state, storeFails, handed, pager>>

EvaluateGetLabsByRange(startKey, endKey) ==
    /\ chaincode = "lab"
    /\ last' = Answer("GetLabsByRange", <<startKey, endKey>>,
                      GetLabsByRange(state, startKey, endKey))
    /\ UNCHANGED <<chaincode, state, storeFails, handed, pager>>

EvaluateGetAllClassses ==
    /\ chaincode = "class"
    /\ last' = Answer("GetAllClassses", << <<>>, <<>> >>, GetAllClassses(state))
    /\ UNCHANGED <<chaincode, state, storeFails, handed, pager>>

NextScan ==
    \/ EvaluateReadLabs
    \/ \E startKey \in {<<>>, lab2}, endKey \in {<<>>, lab \o <<51>>} :
          EvaluateGetLabsByRange(startKey, endKey)
    \/ EvaluateGetAllClassses

SpecScan == InitScan /\ [][NextScan]_vars

----------------------------------------------------------------------------
(* The handlers under a store that may fail, the client of the paginated   *)
(* queries, and the range scans, each with the runs of its own; the rich   *)
(* queries are evaluated in the stores of the first and of the last.       *)

NextTerm ==
    \/ pager.mode = "none" /\ storeFails /\ NextFail
    \/ pager.mode # "none" /\ NextPage
    \/ pager.mode = "none" /\ ~storeFails /\ NextScan
    \/ pager.mode = "none" /\ \E c \in ClassIDs \cup {injected} : EvaluateQueryLabsByClass(c)
    \/ pager.mode = "none" /\ \E c \in ClassIDs : EvaluateQueryInstanceByClass(c)
    \/ pager.mode = "none" /\ \E l \in LabIDs : EvaluateQueryInstanceByLab(l)
    \/ pager.mode = "none" /\ \E owner \in Owners : EvaluateQueryInstanceByOwner(owner)
    \/ pager.mode = "none" /\ \E c \in ClassIDs : EvaluateQuerySubmissionByClass(c)
    \/ pager.mode = "none" /\ \E l \in LabIDs : EvaluateQuerySubmissionByLab(l)
    \/ pager.mode = "none" /\ \E owner \in Owners : EvaluateQuerySubmissionByOwner(owner)

SpecTerm == (InitFail \/ InitPage \/ InitScan) /\ [][NextTerm]_vars

----------------------------------------------------------------------------
(* InitLedger among the Creates and Deletes of the seeds' ids.             *)

InitLedger ==
    /\ chaincode \in {"lab", "instance", "submission"}
    /\ \E f \in Faults(15) :
        LET r == InitLedgerTx(state, f)
        IN  /\ state' = r.st
            /\ last' = [failed |-> f, seed |-> r.seed]
                        @@ Invocation("InitLedger", Seeds[r.seed].ID, <<>>, r.err, <<>>)
    /\ UNCHANGED <<chaincode, storeFails, handed, pager>>

NextSeed ==
    \/ InitLedger
    \/ \E i \in 1..3, classID \in ClassIDs, owner \in Owners :
            CreateLab(Seeds[i].ID, classID, <<110, 48>>, <<99, 48>>, <<105, 48>>,
                      <<115, 48>>, <<101, 48>>, owner)
    \/ \E i \in 1..3, clientID \in Identities : DeleteLab(Seeds[i].ID, clientID)
    \/ \E i \in 1..3, classID \in ClassIDs, owner \in Owners :
            CreateInstance(Seeds[i].ID, lab1, classID, <<103, 48>>, owner)
    \/ \E i \in 1..3, clientID \in Identities : DeleteInstance(Seeds[i].ID, clientID)
    \/ \E i \in 1..3, classID \in ClassIDs, owner \in Owners :
            CreateSubmission(Seeds[i].ID, lab1, classID, <<99, 48>>, owner)
    \/ \E ctx \in Contexts, i \in 1..3 : DeleteSubmission(ctx, Seeds[i].ID)

SpecSeed == Init /\ [][NextSeed]_vars

----------------------------------------------------------------------------
(* The handlers by their role, for the chaincode the behaviour runs.       *)

Mutators ==
    Deletes \cup {"UpdateClass", "UpdateLabContent", "UpdateLabImage", "UpdateLabEndtime",
                  "UpdateLab", "UpdateSubmissionScore", "TransferClass"}

\* ReadClass, ReadLab, ReadInstance, ReadSubmission
Read(st, id) ==
    CASE chaincode = "lab" -> ReadLab(st, id, FALSE)
      [] chaincode = "instance" -> ReadInstance(st, id, FALSE)
      [] chaincode = "submission" -> ReadSubmission(st, id, FALSE)
      [] OTHER -> ReadClass(st, id, FALSE)

\* ClassExists, LabExists, InstanceExists, SubmissionExists
Exists(st, id) ==
    CASE chaincode = "lab" -> LabExists(st, id, FALSE).exists
      [] chaincode = "instance" -> InstanceExists(st, id, FALSE).exists
      [] chaincode = "submission" -> SubmissionExists(st, id, FALSE).exists
      [] OTHER -> ClassExists(st, id, FALSE).exists

\* The indexes the handlers of a kind maintain: the object type of the
\* composite key and the field that leads it; the record's ID follows.
Indexes ==
    CASE chaincode = "lab" -> {[name |-> index, field |-> "ClassID"]}
      [] chaincode \in {"instance", "submission"} ->
            {[name |-> index1, field |-> "LabID"],
             [name |-> index2, field |-> "ClassID"],
             [name |-> index3, field |-> "Owner"]}
      [] OTHER -> {}

IndexKey(ix, rec) == CreateCompositeKey(ix.name, <<rec[ix.field], rec.ID>>).key

\* The final segment of an index entry's key: the id it refers to.
FinalSegment(key) ==
    LET parts == SplitParts(Tail(key), <<>>)
    IN  parts[Len(parts)]

----------------------------------------------------------------------------
(* C1 *)

\* C1: with store calls not failing, in every reachable state of the lab,
\* instance and submission chaincodes, every present record has the index
\* entry of every declared index built from its current field values, and
\* every index entry in the store is the entry of a present record's current
\* values: the entry is present if and only if the record is.
IndexConsistent ==
    /\ \A id \in Records(state) : \A ix \in Indexes :
          /\ Read(state, id).err = OK
          /\ IndexKey(ix, Read(state, id).v) \in DOMAIN state
    /\ \A key \in IndexEntries(state) : \E id \in Records(state), ix \in Indexes :
          key = IndexKey(ix, Read(state, id).v)

\* C1 happens: an instance was deleted while another instance, created and
\* indexed earlier, remains.
IndexConsistentWitness ==
    /\ chaincode = "instance"
    /\ last.op = "DeleteInstance" /\ last.err = OK
    /\ Cardinality(Records(state)) = 1
    /\ Cardinality(IndexEntries(state)) = 3

----------------------------------------------------------------------------
(* C2 *)

\* C2 as stated: after a successful Create, Exists(id) is true and Read(id)
\* returns the record whose every field equals the value submitted, the
\* submitted owner included.
CreateStoresSubmitted ==
    (last.op \in Creates /\ last.err = OK) =>
        /\ Exists(state, last.id)
        /\ Read(state, last.id).err = OK
        /\ Read(state, last.id).v = last.arg

\* C2 amended: after a successful Create, Exists(id) is true and Read(id)
\* returns the submitted fields (a Submission with Score 0), except that the
\* Owner of a Class is the identity of the submitting client, whatever owner
\* was submitted.
CreateStoresRecord ==
    (last.op \in Creates /\ last.err = OK) =>
        /\ Exists(state, last.id)
        /\ Read(state, last.id).err = OK
        /\ Read(state, last.id).v =
              IF last.op = "CreateClass" THEN [last.arg EXCEPT !.Owner = last.caller]
              ELSE last.arg

\* C2 happens: a class was created by a client that submitted another owner.
CreateStoresRecordWitness ==
    /\ last.op = "CreateClass" /\ last.err = OK
    /\ last.arg.Owner # last.caller

----------------------------------------------------------------------------
(* C3 *)

\* C3 as stated: every Update, Delete or Transfer invoked on an existing
\* record by a caller that is not its owner returns Unauthorized and writes
\* nothing, DeleteSubmission and UpdateSubmissionScore included.
NonOwnerRejected ==
    [][(/\ last'.op \in Mutators
        /\ Exists(state, last'.id)
        /\ Read(state, last'.id).v.Owner # last'.caller)
       => (last'.err = "Unauthorized" /\ state' = state)]_vars

----------------------------------------------------------------------------
(* C4 *)

\* C4: after a successful Delete of record R, Exists(id) is false, Read(id)
\* reports not found, and for every index of R's kind the scan of the prefix
\* built from R's former field value holds no entry whose final segment is id.
DeleteRemoves ==
    [][(last'.op \in Deletes /\ last'.err = OK) =>
        LET R == Read(state, last'.id).v
        IN  /\ ~Exists(state', last'.id)
            /\ Read(state', last'.id).err = "NotFound"
            /\ \A ix \in Indexes :
                 \A key \in GetStateByPartialCompositeKey(state', ix.name, <<R[ix.field]>>) :
                    FinalSegment(key) # last'.id]_vars

\* C4 happens: a lab was deleted while the other lab of the same class stays
\* under the same index prefix.
DeleteRemovesWitness ==
    /\ chaincode = "lab"
    /\ last.op = "DeleteLab" /\ last.err = OK
    /\ \E key \in GetStateByPartialCompositeKey(state, index, <<class1>>) :
          FinalSegment(key) # last.id

----------------------------------------------------------------------------
(* C5 *)

\* C5 as stated: Create invoked with an id that already exists returns
\* AlreadyExists and writes nothing, whatever field values it submits.
CreateExistingAlreadyExists ==
    [][(last'.op \in Creates /\ Exists(state, last'.id))
       => (last'.err = "AlreadyExists" /\ state' = state)]_vars

\* C5 amended: Create invoked with an id that already exists writes nothing,
\* whatever field values it submits, and returns AlreadyExists; except that
\* CreateClass invoked by a client without the attribute class.creator = true
\* returns the authorization error of that check.
CreateExistingRejected ==
    [][(last'.op \in Creates /\ Exists(state, last'.id))
       => /\ state' = state
          /\ last'.err = IF last'.op = "CreateClass" /\ ~last'.creator
                         THEN "Forbidden" ELSE "AlreadyExists"]_vars

\* C5 happens: a second Create of an existing id, submitting other field
\* values than the stored ones, was rejected with AlreadyExists.
CreateExistingRejectedWitness ==
    /\ last.op \in Creates /\ last.err = "AlreadyExists"
    /\ Read(state, last.id).err = OK
    /\ Read(state, last.id).v.Owner # last.arg.Owner

----------------------------------------------------------------------------
(* C6 *)

----------------------------------------------------------------------------
(* C7 *)

ClassMutators == {"UpdateClass", "DeleteClass", "TransferClass"}

\* C7 as stated: once owner A has transferred class id to B # A, every later
\* UpdateClass, DeleteClass and TransferClass on id invoked by A returns
\* Unauthorized and the same operations invoked by B succeed.
TransferIsFinal ==
    [][\A h \in handed :
          (last'.op \in ClassMutators /\ last'.id = h[1])
          => /\ last'.caller = h[2] => last'.err = "Unauthorized"
             /\ last'.caller = h[3] => last'.err = OK]_vars

\* C7 amended: a successful TransferClass(id, newOwner) changes the Owner
\* field to newOwner, and nothing else, in that one operation; and at every
\* moment UpdateClass, DeleteClass and TransferClass on an existing class
\* succeed when invoked by the identity that is its Owner at that moment and
\* return Unauthorized, writing nothing, when invoked by any other identity.
\* So after A transfers to B, A is refused and B succeeds for as long as B
\* remains the Owner, that is until B transfers or deletes the class.
TransferHandsOver ==
    [][/\ (last'.op = "TransferClass" /\ last'.err = OK)
          => Read(state', last'.id).v =
                [Read(state, last'.id).v EXCEPT !.Owner = last'.arg.Owner]
       /\ (last'.op \in ClassMutators /\ Exists(state, last'.id))
          => IF last'.caller = Read(state, last'.id).v.Owner
             THEN last'.err = OK
             ELSE last'.err = "Unauthorized" /\ state' = state]_vars

\* C7 happens: A, who transferred the class to B, invoked a mutator on it while
\* B owns it and was refused.
TransferHandsOverWitness ==
    /\ last.op \in ClassMutators /\ last.err = "Unauthorized"
    /\ \E h \in handed :
          /\ h[1] = last.id /\ h[2] = last.caller
          /\ Read(state, last.id).err = OK
          /\ Read(state, last.id).v.Owner = h[3]

----------------------------------------------------------------------------
(* C8 *)

\* The field a query by field compares with its argument.
QueryField ==
    [op \in {"QueryLabsByClass", "QueryInstanceByClass", "QuerySubmissionByClass"}
        |-> "ClassID"]
    @@ [op \in {"QueryInstanceByLab", "QuerySubmissionByLab"} |-> "LabID"]
    @@ [op \in {"QueryInstanceByOwner", "QuerySubmissionByOwner"} |-> "Owner"]

\* C8 as stated: after any sequence of operations a query by field answers
\* with exactly the existing records of the kind whose field equals the
\* argument, each once and as Read returns it: it fails for no argument that
\* a record carries, and it returns no record of another value.
QueryReturnsMatching ==
    last.op \in DOMAIN QueryField =>
        LET matching == {id \in Records(state) :
                            Read(state, id).v[QueryField[last.op]] = last.arg}
        IN  /\ matching # {} => last.err = OK
            /\ last.err = OK =>
                 /\ {last.records[i].ID : i \in 1..Len(last.records)} = matching
                 /\ Len(last.records) = Cardinality(matching)
                 /\ \A i \in 1..Len(last.records) :
                       last.records[i] = Read(state, last.records[i].ID).v

----------------------------------------------------------------------------
(* C9 *)

\* C9: with no write between the pages, the pages of QueryAssetsWithPagination
\* received by passing each bookmark on from "" are at every moment the
\* beginning of what QueryLabs returns for the same query string, the calls
\* end with a page of fetchedCount 0, and the pages then are exactly what
\* QueryLabs returns: every record once, none left out.  This holds for page
\* size 2 and a query matching all NumPageRecs records, and for the other
\* page sizes and queries of the client.
PagesEqualQuery ==
    pager.mode = "query" =>
        /\ IsPrefix(pager.pages, QueryLabs(state, pager.queryString).records)
        /\ pager.done => pager.pages = QueryLabs(state, pager.queryString).records
        /\ pager.calls = MaxCalls => pager.done

\* C9 happens: with page size 2 the client has received the last, empty page
\* of a query that matches at least 5 records.
PagesEqualQueryWitness ==
    /\ pager.mode = "query" /\ pager.done
    /\ pager.pageSize = 2
    /\ pager.queryString = labsQuery
    /\ Len(pager.pages) >= 5
    /\ pager.calls = 4

----------------------------------------------------------------------------
(* C10 *)

\* C10 as stated: every answer of GetAssetsByRangeWithPagination carries the
\* fetchedCount and the nextBookmark with the page's records, and a client
\* passing the bookmark on from "" receives every record of
\* [startKey, endKey) exactly once.
RangePagesThreaded ==
    (pager.mode = "range" /\ pager.calls > 0) =>
        /\ {"FetchedRecordsCount", "Bookmark"} \subseteq DOMAIN pager.response
        /\ IsPrefix(pager.pages,
                    GetLabsByRange(state, pager.startKey, pager.endKey).records)
        /\ pager.done =>
              pager.pages = GetLabsByRange(state, pager.startKey, pager.endKey).records

----------------------------------------------------------------------------
(* C11 *)

\* C11 as stated: a paginated query invoked with pageSize <= 0 answers with
\* the caller error InvalidArgument (and hands nothing to the store).
PageSizeRejected ==
    (pager.mode \in {"query", "range"} /\ pager.pageSize <= 0 /\ pager.calls > 0)
        => pager.response.err = "InvalidArgument"

----------------------------------------------------------------------------
(* C12 *)

----------------------------------------------------------------------------
(* C13 *)

\* C13 as stated: over a store that may fail a call, whenever Create returns
\* success the record and the entry of every index of its kind are written,
\* and whenever Delete returns success the record and every index entry of
\* its former values are gone; the failure of an index write never ends in
\* success.
NoPartialSuccess ==
    [][/\ (last'.op \in Creates /\ last'.err = OK)
          => /\ Exists(state', last'.id)
             /\ \A ix \in Indexes : IndexKey(ix, last'.arg) \in DOMAIN state'
       /\ (last'.op \in Deletes /\ last'.err = OK)
          => /\ ~Exists(state', last'.id)
             /\ \A ix \in Indexes :
                   IndexKey(ix, Read(state, last'.id).v) \notin DOMAIN state']_vars

----------------------------------------------------------------------------
(* C14 *)

\* C14: with store calls not failing, after any Creates (and Deletes) of
\* records with distinct ids, for every index of the kind and every record
\* the scan of the index under the record's field value holds exactly one
\* entry whose final segment is the record's id; two distinct records have
\* distinct keys in every index, also when they agree on every indexed
\* field; and every index holds as many entries as there are records.
OneEntryPerRecord ==
    \A ix \in Indexes :
        /\ \A id \in Records(state) :
              Cardinality({key \in GetStateByPartialCompositeKey(
                                      state, ix.name, <<Read(state, id).v[ix.field]>>) :
                             FinalSegment(key) = id}) = 1
        /\ \A id1, id2 \in Records(state) :
              id1 # id2 => IndexKey(ix, Read(state, id1).v) # IndexKey(ix, Read(state, id2).v)
        /\ Cardinality(GetStateByPartialCompositeKey(state, ix.name, <<>>))
              = Cardinality(Records(state))

\* C14 happens: two submissions that agree on LabID, ClassID and Owner were
\* created.
OneEntryPerRecordWitness ==
    /\ chaincode = "submission"
    /\ last.op = "CreateSubmission" /\ last.err = OK
    /\ \E id1, id2 \in Records(state) :
          /\ id1 # id2
          /\ \A ix \in Indexes :
                Read(state, id1).v[ix.field] = Read(state, id2).v[ix.field]

----------------------------------------------------------------------------
(* C15 *)

\* C15: a successful UpdateLabContent, UpdateLabImage, UpdateLabEndtime,
\* UpdateLab, UpdateClass or UpdateSubmissionScore leaves under id a record
\* whose named fields hold the new values and whose every other field holds
\* its previous value; ID, DocType, Owner, ClassID and LabID are never among
\* the named fields; no key other than id is written, and the set of keys,
\* index entries included, is the same after as before.
UpdateFrame ==
    [][(/\ last'.op \in {"UpdateLabContent", "UpdateLabImage", "UpdateLabEndtime",
                         "UpdateLab", "UpdateClass", "UpdateSubmissionScore"}
        /\ last'.err = OK)
       => LET old == Read(state, last'.id)
              new == Read(state', last'.id)
          IN  /\ old.err = OK /\ new.err = OK
              /\ DOMAIN new.v = DOMAIN old.v
              /\ DOMAIN last'.arg \subseteq DOMAIN old.v
              /\ DOMAIN last'.arg \cap {"ID", "DocType", "Owner", "ClassID", "LabID"} = {}
              /\ \A field \in DOMAIN old.v :
                    new.v[field] = IF field \in DOMAIN last'.arg
                                   THEN last'.arg[field] ELSE old.v[field]
              /\ DOMAIN state' = DOMAIN state
              /\ \A key \in DOMAIN state \ {last'.id} : state'[key] = state[key]
              /\ IndexEntries(state') = IndexEntries(state)
              /\ \A ix \in Indexes : IndexKey(ix, new.v) = IndexKey(ix, old.v)]_vars

\* C15 happens: the owner's UpdateLabEndtime succeeded on a lab that was
\* created with another end time, and the lab's index entry is in the store.
UpdateFrameWitness ==
    /\ chaincode = "lab"
    /\ last.op = "UpdateLabEndtime" /\ last.err = OK
    /\ Read(state, last.id).err = OK
    /\ Read(state, last.id).v.EndTime = <<101, 49>>
    /\ Read(state, last.id).v.StartTime = <<115, 48>>
    /\ last.caller = Read(state, last.id).v.Owner
    /\ IndexKey([name |-> index, field |-> "ClassID"], Read(state, last.id).v) \in DOMAIN state

----------------------------------------------------------------------------
(* C16 *)

\* C16 as stated: of two Creates of the same fresh id, each run as one unit
\* in either order, the first returns success and the second returns
\* AlreadyExists and writes nothing.
SecondCreateAlreadyExists ==
    [][(/\ last.op \in Creates /\ last.err = OK
        /\ last'.op \in Creates /\ last'.id = last.id)
       => (last'.err = "AlreadyExists" /\ state' = state)]_vars

\* C16 amended: of two Creates of the same fresh id, each run as one unit in
\* either order, a Create that finds the id absent succeeds (for CreateClass:
\* when the client holds class.creator = true); the Create that follows a
\* successful one writes nothing and returns AlreadyExists (CreateClass by a
\* client without the attribute: the error of the attribute check); the
\* stored record and its index entries are those of the successful Create.
ConcurrentCreates ==
    [][/\ (/\ last'.op \in Creates /\ ~Exists(state, last'.id)
           /\ last'.op = "CreateClass" => last'.creator)
          => last'.err = OK
       /\ (/\ last.op \in Creates /\ last.err = OK
           /\ last'.op \in Creates /\ last'.id = last.id)
          => /\ last'.err = IF last'.op = "CreateClass" /\ ~last'.creator
                            THEN "Forbidden" ELSE "AlreadyExists"
             /\ state' = state
             /\ Read(state', last.id).err = OK
             /\ \A field \in DOMAIN last.arg :
                   (chaincode = "class" /\ field = "Owner")
                   \/ Read(state', last.id).v[field] = last.arg[field]
             /\ IndexEntries(state') \ IndexEntries(state) = {}
             /\ \A ix \in Indexes : IndexKey(ix, last.arg) \in DOMAIN state'
             /\ \A key \in IndexEntries(state') :
                   FinalSegment(key) = last.id
                   => \E ix \in Indexes : key = IndexKey(ix, last.arg)]_vars

\* C16 happens: CreateInstance of an id whose record is in the store, with
\* another LabID than the stored one, was answered AlreadyExists, and the
\* index holds no entry of the LabID it submitted.
ConcurrentCreatesWitness ==
    /\ chaincode = "instance"
    /\ last.op = "CreateInstance" /\ last.err = "AlreadyExists"
    /\ Read(state, last.id).err = OK
    /\ Read(state, last.id).v.LabID # last.arg.LabID
    /\ IndexKey([name |-> index1, field |-> "LabID"], last.arg) \notin DOMAIN state

----------------------------------------------------------------------------
(* C17 *)

\* C17: with every invocation run as one unit and store calls not failing,
\* in every interleaving of Creates, Updates and Deletes the state an
\* invocation finds and the state it leaves hold, for the id it is invoked
\* on, either the record with exactly its index entries or neither the
\* record nor any entry whose key ends with the id; an Update that follows a
\* successful Delete of the id finds nothing and writes nothing, and a
\* Delete that follows an Update removes the record with its entries.
NoIntermediateState ==
    [][LET Whole(st, id) ==
               LET rec == Read(st, id)
                   end == <<0>> \o id \o <<0>>
                   entries == {key \in IndexEntries(st) :
                                 /\ Len(key) > Len(end)
                                 /\ SubSeq(key, Len(key) - Len(end) + 1, Len(key)) = end}
               IN  IF Exists(st, id)
                   THEN rec.err = OK /\ entries = {IndexKey(ix, rec.v) : ix \in Indexes}
                   ELSE entries = {}
       IN  (last'.op \in Creates \cup Mutators)
           => /\ Whole(state, last'.id)
              /\ Whole(state', last'.id)
              /\ (/\ last.op \in Deletes /\ last.err = OK
                  /\ last'.op \in Mutators \ Deletes /\ last'.id = last.id)
                 => /\ last'.err = "NotFound"
                    /\ state' = state
                    /\ ~Exists(state', last'.id)
              /\ (/\ last.op \in Mutators \ Deletes /\ last.err = OK
                  /\ last'.op \in Deletes /\ last'.id = last.id /\ last'.err = OK)
                 => ~Exists(state', last'.id)]_vars

\* C17 happens: UpdateLab ran on an id that a Delete had removed, while one
\* other lab is in the store: it found nothing, and neither the record nor
\* an index entry of the id is there.
NoIntermediateStateWitness ==
    /\ chaincode = "lab"
    /\ last.op = "UpdateLab" /\ last.err = "NotFound"
    /\ ~Exists(state, last.id)
    /\ \A key \in IndexEntries(state) : FinalSegment(key) # last.id
    /\ Cardinality(Records(state)) = 1
    /\ Cardinality(IndexEntries(state)) = 1

----------------------------------------------------------------------------
(* C18 *)

\* C18: an Exists(id) that the store answers returns true if and only if a
\* value is stored under id, which is if and only if Read(id) does not report
\* NotFound; it returns false for an id whose Delete has just succeeded and
\* for an id that no Create of the chaincode was given; and it leaves the
\* store as it found it.
ExistsIffStored ==
    [][(last'.op = "Exists" /\ last'.err = OK)
       => /\ last'.arg = (last'.id \in DOMAIN state)
          /\ last'.arg = (Read(state, last'.id).err # "NotFound")
          /\ (last.op \in Deletes /\ last.err = OK /\ last.id = last'.id)
                => last'.arg = FALSE
          /\ last'.id \notin IDs(chaincode) => last'.arg = FALSE
          /\ state' = state]_vars

\* C18 happens: Exists answered true for an id whose record Read returns.
ExistsIffStoredWitness ==
    /\ last.op = "Exists" /\ last.err = OK
    /\ last.arg = TRUE
    /\ Read(state, last.id).err = OK

----------------------------------------------------------------------------
(* C19 *)

\* C19: when the GetState an invocation starts with fails, Read and Exists
\* return the store's error, not NotFound and not an answer; a Create, Update,
\* Transfer or Delete returns the store's error, whether the id is in the
\* store or not, and writes nothing.  (CreateClass by a client without
\* class.creator = true returns before it reads.)
ReadFailureIsError ==
    [][(/\ last'.op \in Creates \cup Mutators \cup {"Read", "Exists"}
        /\ last'.failed = 1
        /\ ~(last'.op = "CreateClass" /\ ~last'.creator))
       => /\ last'.err = "StoreError"
          /\ state' = state]_vars

\* C19 happens: the GetState of a CreateLab of an absent id failed; the
\* invocation returned the store's error and the id is still absent.
ReadFailureIsErrorWitness ==
    /\ last.op = "CreateLab" /\ last.failed = 1
    /\ last.err = "StoreError"
    /\ ~Exists(state, last.id)
    /\ state = [k \in {} |-> Nil]

----------------------------------------------------------------------------
(* C20 *)

\* The argument a handler formats into the message of the error it returns,
\* <<>> when the message holds none.
\*   "lab already exists: %s", labID       "the class %s already exists", id
\*   "instance already exists: %s", labID  (CreateInstance, CreateSubmission)
\*   "asset %s does not exist", labID      "instance %s does not exist", ...
\*   "failed to read lab %s from world state. %v", labID, err
\*   "failed to get asset %s: %v", labID, err
\*   "failed to read from world state: %v", err             (class.go)
\*   "failed to delete asset %s: %v", labID, err
\*   "failed to delete asset %s: %v", instance, err   (the record read, ID included)
\*   "submitting client not authorized to update lab, does not own lab"
\* The error of a PutState, and of a DelState of an index entry, is returned
\* as the store gives it.
ErrorNames(inv) ==
    CASE inv.err = "AlreadyExists" ->
            IF inv.op \in {"CreateInstance", "CreateSubmission"} THEN inv.arg.LabID
            ELSE inv.id
      [] inv.err = "NotFound" -> inv.id
      [] inv.err = "StoreError" /\ inv.failed = 1 ->
            IF inv.op \in ClassMutators \cup {"CreateClass"} THEN <<>> ELSE inv.id
      [] inv.err = "StoreError" /\ inv.failed = 2 /\ inv.op \in Deletes \ {"DeleteClass"} ->
            inv.id
      [] OTHER -> <<>>

\* C20: every AlreadyExists, NotFound, Unauthorized and store error that a
\* Create, Update, Transfer or Delete returns names the id of the record the
\* invocation was made on; the AlreadyExists error of CreateInstance and
\* CreateSubmission names the instance or submission id.
ErrorsNameRecord ==
    (/\ last.op \in Creates \cup Mutators
     /\ last.err \in {"AlreadyExists", "NotFound", "Unauthorized", "StoreError"})
        => ErrorNames(last) = last.id

----------------------------------------------------------------------------
(* C21 *)

\* C21: a Create of an absent id whose record was written and whose index
\* entry then fails (the key cannot be built because the field value holds
\* U+0000, or the store rejects the PutState of the entry) returns an error;
\* the record stays written, the index entries written before the failing
\* step stay, and nothing is written after it.
CreateFailureLeavesRecord ==
    [][LET step(ix) == CASE ix.field = "LabID" -> 3
                         [] ix.field = "Owner" -> 5
                         [] OTHER -> IF chaincode = "lab" THEN 3 ELSE 4
           failing == {step(ix) : ix \in {i \in Indexes :
                          HasNul(last'.arg[i.field]) \/ last'.failed = step(i)}}
           before == {ix \in Indexes : \A s \in failing : step(ix) < s}
       IN  (/\ last'.op \in Creates /\ ~Exists(state, last'.id)
            /\ last'.failed \notin {1, 2} /\ failing # {})
           => /\ last'.err # OK
              /\ Exists(state', last'.id)
              /\ DOMAIN state' = DOMAIN state \cup {last'.id}
                                    \cup {IndexKey(ix, last'.arg) : ix \in before}]_vars

----------------------------------------------------------------------------
(* C22 *)

\* C22 as stated: a Delete by the owner, no store call failing, of a record
\* of which some index entry is missing returns success and leaves neither
\* the record nor any index entry whose key ends with the id.
DeleteToleratesMissing ==
    [][LET rec == Read(state, last'.id)
           end == <<0>> \o last'.id \o <<0>>
       IN  (/\ last'.op \in Deletes /\ last'.failed = 0
            /\ rec.err = OK /\ last'.caller = rec.v.Owner
            /\ \E ix \in Indexes : IndexKey(ix, rec.v) \notin DOMAIN state)
           => /\ last'.err = OK
              /\ ~Exists(state', last'.id)
              /\ \A key \in IndexEntries(state') :
                    SubSeq(key, Len(key) - Len(end) + 1, Len(key)) # end]_vars

\* C22 amended: the same for a record whose indexed field values hold no
\* U+0000, so that the keys of its index entries can be built, and for the
\* entries built from the record's field values: the Delete returns success
\* and removes the record and those entries, and nothing else.  (The Delete
\* of a record with a value that holds U+0000 removes the record and returns
\* the error of the key that cannot be built.)
DeleteIdempotent ==
    [][LET rec == Read(state, last'.id)
           bad == {ix \in Indexes : HasNul(rec.v[ix.field])}
       IN  (/\ last'.op \in Deletes /\ last'.failed = 0
            /\ rec.err = OK /\ last'.caller = rec.v.Owner
            /\ \E ix \in Indexes : IndexKey(ix, rec.v) \notin DOMAIN state)
           => /\ last'.err = IF bad = {} THEN OK ELSE "EncodingError"
              /\ ~Exists(state', last'.id)
              /\ bad = {} =>
                    DOMAIN state' = DOMAIN state \ ({last'.id} \cup
                                       {IndexKey(ix, rec.v) : ix \in Indexes})]_vars

\* C22 happens: the owner's DeleteInstance succeeded on a record that had
\* only one of its three index entries: two keys were removed and the store
\* is empty.
DeleteIdempotentWitness ==
    /\ chaincode = "instance"
    /\ last.op = "DeleteInstance" /\ last.err = OK /\ last.failed = 0
    /\ Cardinality(last.removed) = 2
    /\ state = [k \in {} |-> Nil]

----------------------------------------------------------------------------
(* C23 *)

\* C23: of any two index keys built one after the other, from an index name,
\* a field value and an id over "~" and "a": the keys are equal only if the
\* name, the value and the id are equal, so that moving characters between
\* the value and the id changes the key; no key equals the bare id of either;
\* and a key is built if and only if neither segment holds U+0000.
CompositeKeyInjective ==
    [][(last.op = "CreateCompositeKey" /\ last'.op = "CreateCompositeKey")
       => /\ (last'.err = OK) = (~HasNul(last'.arg[2]) /\ ~HasNul(last'.arg[3]))
          /\ (last.err = OK /\ last'.err = OK)
                => /\ last.key = last'.key => last.arg = last'.arg
                   /\ last'.key # last'.id /\ last'.key # last.id
                   /\ last.key # last'.id]_vars

\* C23 happens: a key was built from the value "a~" and the id "a".
CompositeKeyInjectiveWitness ==
    /\ last.op = "CreateCompositeKey" /\ last.err = OK
    /\ last.arg = <<index1, <<97, 126>>, <<97>>>>
    /\ last.key = <<0>> \o index1 \o <<0, 97, 126, 0, 97, 0>>

----------------------------------------------------------------------------
(* C24 *)

\* C24: every answered call of QueryAssetsWithPagination returns the
\* bookmark and the fetched count that the store's query gives for the
\* query string, the page size and the bookmark the client passed; the
\* records of the page are as many as the fetched count and at most the page
\* size; and the answer is that of a first call made with these arguments.
PageFrame ==
    [][(/\ pager.mode = "query" /\ pager'.calls = pager.calls + 1
        /\ pager'.response.err = OK)
       => LET store == GetQueryResultWithPagination(state, pager.queryString,
                                                    pager.pageSize, pager.bookmark)
          IN  /\ pager'.response.Bookmark = store.metadata.Bookmark
              /\ pager'.response.FetchedRecordsCount = store.metadata.FetchedRecordsCount
              /\ Len(pager'.response.Labs) = pager'.response.FetchedRecordsCount
              /\ Len(pager'.response.Labs) <= pager.pageSize
              /\ pager'.response = QueryAssetsWithPagination(state, pager.queryString,
                                        pager.pageSize, pager.bookmark)]_vars

----------------------------------------------------------------------------
(* C25 *)

----------------------------------------------------------------------------
(* C26 *)

\* C26: every evaluation of Exists, Read, ReadLabs, GetLabsByRange,
\* GetAllClassses, of a rich query and of a paginated query, whether it
\* returns an answer or an error, leaves the store as it was: the same
\* records and the same index entries with the same values.
ReadOnlyWritesNothing ==
    [][(\/ last'.op \in {"Exists", "Read", "ReadLabs", "GetLabsByRange", "GetAllClassses",
                         "QueryLabsByClass", "QueryInstanceByClass", "QueryInstanceByLab",
                         "QueryInstanceByOwner", "QuerySubmissionByClass",
                         "QuerySubmissionByLab", "QuerySubmissionByOwner",
                         "QueryAssetsWithPagination", "GetAssetsByRangeWithPagination"}
        \/ pager' # pager)
       => /\ Records(state') = Records(state)
          /\ IndexEntries(state') = IndexEntries(state)
          /\ state' = state]_vars

\* C26 happens: ReadLabs has returned the error of a value it cannot parse,
\* over a store that also holds a record.
ReadOnlyWritesNothingWitness ==
    /\ last.op = "ReadLabs" /\ last.err = "ParseError"
    /\ \E id \in Records(state) : Read(state, id).err = OK

----------------------------------------------------------------------------
(* C27 *)

\* C27: after a successful CreateClass the stored Owner is the decoded
\* identity of the submitting client, whatever owner was submitted; the next
\* UpdateClass, TransferClass or DeleteClass on that class succeeds when it is
\* invoked by the creator, and is refused as Unauthorized, writing nothing,
\* when invoked by any other identity, the one named in the owner argument
\* (as the seed owners are in InitLedger's calls of CreateClass) included.
CreatorOwnsClass ==
    [][/\ (last'.op = "CreateClass" /\ last'.err = OK)
          => /\ Read(state', last'.id).err = OK
             /\ Read(state', last'.id).v.Owner = last'.caller
       /\ (/\ last.op = "CreateClass" /\ last.err = OK
           /\ last'.op \in ClassMutators /\ last'.id = last.id)
          => IF last'.caller = last.caller
             THEN last'.err = OK
             ELSE last'.err = "Unauthorized" /\ state' = state]_vars

\* C27 happens: the identity named in the owner argument of the CreateClass
\* just made, which is not the creator, invoked a mutator on the class and
\* was refused; the class is still the creator's.
CreatorOwnsClassWitness ==
    /\ last.op \in ClassMutators /\ last.err = "Unauthorized"
    /\ Read(state, last.id).err = OK
    /\ Read(state, last.id).v.Owner # last.caller
    /\ Read(state, last.id).v.Owner \in Identities

----------------------------------------------------------------------------
(* C28 *)

\* C28: CreateClass invoked by a client without the attribute class.creator =
\* true returns the authorization error and leaves the store as it was,
\* whether the id is fresh or present, and also when the store's first call
\* would fail: the existence check is not reached.  A class record appears in
\* the store only through a CreateClass of a client that has the attribute.
CreatorAttributeRequired ==
    [][/\ (last'.op = "CreateClass" /\ ~last'.creator)
          => last'.err = "Forbidden" /\ state' = state
       /\ (chaincode = "class" /\ Records(state') \ Records(state) # {})
          => last'.op = "CreateClass" /\ last'.creator /\ last'.err = OK]_vars

\* C28 happens: a client without the attribute invoked CreateClass on an
\* existing id while the store's first call would fail, and was refused.
CreatorAttributeRequiredWitness ==
    /\ last.op = "CreateClass" /\ ~last.creator /\ last.failed = 1
    /\ last.err = "Forbidden"
    /\ Exists(state, last.id)

----------------------------------------------------------------------------
(* C29 *)

\* C29 as stated: in every state reached by Create and Delete operations, for
\* every index of the Lab, Instance and Submission records and every value of
\* its field, the ids found under the index prefix (index name, value) are
\* the ids of the records the rich query by that field returns for the value
\* (none when the query returns an error).
IndexEqualsQuery ==
    \A ix \in Indexes :
        \A arg \in (CASE ix.field = "ClassID" -> ClassIDs \cup {injected}
                      [] ix.field = "LabID" -> LabIDs
                      [] OTHER -> Owners) :
            LET found == {FinalSegment(k) :
                             k \in GetStateByPartialCompositeKey(state, ix.name, <<arg>>)}
                answer ==
                    CASE chaincode = "lab" -> QueryLabsByClass(state, arg)
                      [] chaincode = "instance" /\ ix.field = "LabID" ->
                            QueryInstanceByLab(state, arg)
                      [] chaincode = "instance" /\ ix.field = "ClassID" ->
                            QueryInstanceByClass(state, arg)
                      [] chaincode = "instance" /\ ix.field = "Owner" ->
                            QueryInstanceByOwner(state, arg)
                      [] chaincode = "submission" /\ ix.field = "LabID" ->
                            QuerySubmissionByLab(state, arg)
                      [] chaincode = "submission" /\ ix.field = "ClassID" ->
                            QuerySubmissionByClass(state, arg)
                      [] OTHER -> QuerySubmissionByOwner(state, arg)
            IN  found = IF answer.err # OK THEN {}
                        ELSE {answer.records[i].ID : i \in 1..Len(answer.records)}

----------------------------------------------------------------------------
(* C30 *)

\* C30: an id can be created again after its deletion.  A Create that directly
\* follows the successful Delete of its id succeeds (CreateClass when invoked
\* by a client with the attribute class.creator), the record then holds
\* exactly the fields of this Create (the Owner of a Class being the client
\* that invoked it), the index entries of the id are exactly those built from
\* these fields, and no other key the Delete removed, such as the entry under
\* the former ClassID or Owner, is in the store.
RecreateAfterDelete ==
    [][(/\ last.op \in Deletes /\ last.err = OK
        /\ last'.op \in Creates /\ last'.id = last.id
        /\ last'.op = "CreateClass" => last'.creator)
       => LET fields2 == IF last'.op = "CreateClass"
                         THEN [last'.arg EXCEPT !.Owner = last'.caller]
                         ELSE last'.arg
              entries == {IndexKey(ix, fields2) : ix \in Indexes}
              end == <<0>> \o last'.id \o <<0>>
          IN  /\ last'.err = OK
              /\ Read(state', last'.id).err = OK
              /\ Read(state', last'.id).v = fields2
              /\ {k \in IndexEntries(state') :
                     /\ Len(k) >= Len(end)
                     /\ SubSeq(k, Len(k) - Len(end) + 1, Len(k)) = end} = entries
              /\ \A k \in last.removed \ ({last'.id} \cup entries) :
                     k \notin DOMAIN state']_vars

\* C30 happens: an instance has been created again directly after its
\* deletion, under another lab, another class and another owner; the three
\* entries the Delete removed are not in the store, the three new ones are.
RecreateAfterDeleteWitness ==
    /\ last.op = "CreateInstance" /\ last.err = OK
    /\ Cardinality(last.replaces) = 4
    /\ last.replaces \cap DOMAIN state = {last.id}
    /\ Read(state, last.id).err = OK
    /\ Read(state, last.id).v = last.arg
    /\ \A ix \in Indexes : IndexKey(ix, last.arg) \in DOMAIN state

----------------------------------------------------------------------------
(* C31 *)

\* C31: InitLedger creates its seeds in list order and stops at the first
\* seed whose id is present: it returns the AlreadyExists of that seed, or nil
\* when none is present; every seed before that one is then in the store as
\* listed, with each of its index entries; these are the only keys added, and
\* every key that was in the store keeps its value.  So on an empty store all
\* three seeds are created, a second InitLedger stops at the first seed and
\* changes nothing, and with only a later seed present the earlier ones are
\* created before the error is returned.
SeedsInOrder ==
    [][last'.op = "InitLedger" =>
          LET present == {i \in 1..3 : Exists(state, Seeds[i].ID)}
              first == IF present = {} THEN 4
                       ELSE CHOOSE i \in present : \A j \in present : i <= j
              created == {i \in 1..3 : i < first}
          IN  /\ last'.err = IF first = 4 THEN OK ELSE "AlreadyExists"
              /\ first # 4 => last'.seed = first
              /\ \A i \in created :
                    /\ Read(state', Seeds[i].ID).err = OK
                    /\ Read(state', Seeds[i].ID).v = Seeds[i]
              /\ DOMAIN state' =
                    DOMAIN state \cup {Seeds[i].ID : i \in created}
                        \cup {IndexKey(ix, Seeds[i]) : i \in created, ix \in Indexes}
              /\ \A k \in DOMAIN state : state'[k] = state[k]]_vars

\* C31 happens: InitLedger of the LabContract met lab3 in the store, under
\* another owner than the seed's, after it had created lab1 and lab2; it
\* returned the AlreadyExists of the third seed.
SeedsInOrderWitness ==
    /\ chaincode = "lab"
    /\ last.op = "InitLedger" /\ last.err = "AlreadyExists" /\ last.seed = 3
    /\ Read(state, Seeds[1].ID).err = OK /\ Read(state, Seeds[1].ID).v = Seeds[1]
    /\ Read(state, Seeds[2].ID).err = OK /\ Read(state, Seeds[2].ID).v = Seeds[2]
    /\ Read(state, Seeds[3].ID).err = OK /\ Read(state, Seeds[3].ID).v.Owner = Sam
    /\ Cardinality(IndexEntries(state)) = 3

----------------------------------------------------------------------------
(* C32 *)

\* C32: within one Create the record is written before any index entry, and
\* within one Delete the record is removed before any index entry.  The store
\* after each call of an invocation is the store an invocation leaves when
\* its next call fails; so, wherever a Create stops, the index entries it has
\* written are entries of its id and the record of the id is in the store,
\* readable; and wherever a Delete stops, if it has removed an index entry
\* then the record of its id is no longer in the store.
RecordBeforeEntries ==
    [][/\ last'.op \in Creates
          => LET end == <<0>> \o last'.id \o <<0>>
                 written == IndexEntries(state') \ IndexEntries(state)
             IN  /\ \A k \in written :
                       /\ Len(k) >= Len(end)
                       /\ SubSeq(k, Len(k) - Len(end) + 1, Len(k)) = end
                 /\ written # {}
                       => /\ last'.id \in Records(state')
                          /\ Read(state', last'.id).err = OK
                 /\ last'.failed \in 1..2 => written = {}
       /\ last'.op \in Deletes
          => /\ IndexEntries(state) \ IndexEntries(state') # {}
                   => last'.id \notin DOMAIN state'
             /\ last'.failed \in 1..2 => state' = state]_vars

\* C32 happens: a CreateInstance stopped at its second index entry; the store
\* holds the record and the first entry, and nothing else.
RecordBeforeEntriesWitness ==
    /\ last.op = "CreateInstance" /\ last.failed = 4
    /\ Exists(state, last.id)
    /\ Cardinality(IndexEntries(state)) = 1
    /\ Cardinality(DOMAIN state) = 2

====
